---- MODULE Spec2Model ----
(***************************************************************************)
(* Model of the statistics engine of StooqAnalyzer (src/lib/statistics.ts) *)
(* and of the places that call it.                                         *)
(*                                                                         *)
(* Every function of the engine is pure.  A behaviour of the model is one  *)
(* invocation: the machine starts idle, an action picks the arguments of   *)
(* one exported function from a bounded set of valid inputs, records them  *)
(* in `call`, and stores what the function returns (or the error it        *)
(* throws) in `ret`.                                                       *)
(*                                                                         *)
(* Numbers.  JavaScript numbers are modelled as exact rationals <<n, d>>   *)
(* (d > 0, lowest terms); rounding of IEEE doubles is not modelled.        *)
(* Math.pow with a fractional exponent and Math.sqrt are kept as terms     *)
(* (records) over their exact rational arguments.                          *)
(*                                                                         *)
(* Dates.  An ISO date string "YYYY-MM-DD" is modelled as the integer      *)
(* YYYYMMDD: string comparison of ISO dates is integer comparison of the   *)
(* encodings, substring(0, 7) is division by 100, substring(0, 4) is       *)
(* division by 10000.  The empty string is 0 (smaller than every date and  *)
(* falsy, as in the source).                                               *)
(***************************************************************************)
EXTENDS Integers, Sequences, FiniteSets, TLC

VARIABLES call, ret

vars == <<call, ret>>

(***************************************************************************)
(* Bounds of the model.                                                    *)
(***************************************************************************)
MaxLen == 3          \* longest single series drawn for the one-series functions
MaxClose == 3        \* closes are drawn from 1..MaxClose
MaxPairLen == 2      \* longest series drawn for the functions of several series
MaxPairClose == 2    \* their closes are drawn from 1..MaxPairClose
MaxRollLen == 3      \* longest series drawn for calculateRollingReturns
MaxRollClose == 2    \* its closes are drawn from 1..MaxRollClose
MaxMonths == 13      \* most calendar months of a backtested history
DaysPerMonth == 21   \* trading days in each month of a backtested history
MaxTableLen == 3     \* longest series drawn for calculateReturnsTable
MaxTableClose == 2   \* its closes are drawn from 1..MaxTableClose
MaxCurveLen == 3     \* longest equity curve given to calculateStrategyStatistics
MaxCurveValue == 2   \* its values are drawn from 1..MaxCurveValue

(***************************************************************************)
(* Numbers                                                                 *)
(***************************************************************************)
Abs(x) == IF x < 0 THEN -x ELSE x

RECURSIVE Gcd(_, _)
Gcd(a, b) == IF b = 0 THEN a ELSE Gcd(b, a % b)

\* the rational n/d in lowest terms with a positive denominator
Rat(n, d) ==
    LET g == Gcd(Abs(n), Abs(d))
        s == IF d < 0 THEN -1 ELSE 1
    IN  <<(s * n) \div g, (s * d) \div g>>

Num(n) == <<n, 1>>
Zero == Num(0)
One == Num(1)
Hundred == Num(100)

\* sums and products reduce before they multiply, and comparisons go by
\* integer parts and reciprocals of the fractional parts, so that no
\* intermediate value is larger than the result needs
RAdd(x, y) ==
    LET g == Gcd(x[2], y[2])
    IN  Rat(x[1] * (y[2] \div g) + y[1] * (x[2] \div g), (x[2] \div g) * y[2])
RNeg(x) == <<-x[1], x[2]>>
RSub(x, y) == RAdd(x, RNeg(y))
RMul(x, y) ==
    LET a == Rat(x[1], y[2])
        b == Rat(y[1], x[2])
    IN  <<a[1] * b[1], a[2] * b[2]>>
RDiv(x, y) == RMul(x, IF y[1] < 0 THEN <<-y[2], -y[1]>> ELSE <<y[2], y[1]>>)

RECURSIVE RLt(_, _)
RLt(x, y) ==
    LET qx == x[1] \div x[2]
        qy == y[1] \div y[2]
        rx == x[1] - qx * x[2]
        ry == y[1] - qy * y[2]
    IN  IF qx # qy THEN qx < qy
        ELSE IF ry = 0 THEN FALSE
        ELSE IF rx = 0 THEN TRUE
        ELSE RLt(<<y[2], ry>>, <<x[2], rx>>)
RLe(x, y) == ~RLt(y, x)
RGt(x, y) == RLt(y, x)

(***************************************************************************)
(* Dates                                                                   *)
(***************************************************************************)
EmptyString == 0

MkDate(y, m, d) == y * 10000 + m * 100 + d
YearOf(date) == date \div 10000            \* parseInt(date.substring(0, 4))
MonthOf(date) == (date \div 100) % 100     \* parseInt(date.substring(5, 7))
DayOf(date) == date % 100
YearMonth(date) == date \div 100           \* date.substring(0, 7)
MonthDay(date) == date % 10000             \* date.substring(5)

\* new Date("YYYY-MM-DD").getTime() / 86400000: days since 1970-01-01 (UTC)
EpochDay(date) ==
    LET y0 == YearOf(date)
        m == MonthOf(date)
        d == DayOf(date)
        y == IF m <= 2 THEN y0 - 1 ELSE y0
        era == y \div 400
        yoe == y - era * 400
        mp == (m + 9) % 12
        doy == (153 * mp + 2) \div 5 + d - 1
        doe == yoe * 365 + yoe \div 4 - yoe \div 100 + doy
    IN  era * 146097 + doe - 719468

\* Math.ceil((new Date(b).getTime() - new Date(a).getTime()) / 86400000)
DaysBetween(a, b) == EpochDay(b) - EpochDay(a)

DaysPerYearTimes4 == 1461   \* 365.25 days, times 4

\* (b.getTime() - a.getTime()) / (365.25 * 24 * 60 * 60 * 1000)
YearsBetween(a, b) == Rat(4 * DaysBetween(a, b), DaysPerYearTimes4)

(***************************************************************************)
(* Series                                                                  *)
(***************************************************************************)
Point(date, close) == [date |-> date, close |-> close]

Range(s) == {s[i] : i \in DOMAIN s}

\* [...data].sort((a, b) => a.date.localeCompare(b.date)): a stable sort by
\* date; on a series that is already ascending it returns the series.
RECURSIVE InsertByDate(_, _)
InsertByDate(s, p) ==
    IF s = <<>> THEN <<p>>
    ELSE IF s[Len(s)].date <= p.date THEN Append(s, p)
    ELSE Append(InsertByDate(SubSeq(s, 1, Len(s) - 1), p), s[Len(s)])

RECURSIVE SortByDateFrom(_, _, _)
SortByDateFrom(s, i, acc) ==
    IF i > Len(s) THEN acc ELSE SortByDateFrom(s, i + 1, InsertByDate(acc, s[i]))

IsAscending(s) == \A i \in 1..(Len(s) - 1) : s[i].date <= s[i + 1].date

SortByDate(s) == IF IsAscending(s) THEN s ELSE SortByDateFrom(s, 1, <<>>)

\* the dates the one-series inputs are drawn from: two Decembers, a leap
\* day, month ends and month starts over three calendar years
Dates == {20210226, 20221230, 20230102, 20230131, 20231229, 20240229, 20240301}

\* the ascending sequence of the elements of a set of dates
RECURSIVE SetToSeq(_)
SetToSeq(T) ==
    IF T = {} THEN <<>>
    ELSE LET m == CHOOSE x \in T : \A y \in T : x <= y
         IN  <<m>> \o SetToSeq(T \ {m})

\* the valid series over the dates D: date-ascending, duplicate-free, closes > 0
\* (parseStooqCSV keeps close > 0 and sorts by date); the empty sequence is
\* what a date filter can leave of one
SeriesOver(D, maxLen, maxClose) ==
    UNION {{[i \in 1..Len(ds) |-> Point(ds[i], cs[i])] :
                cs \in [1..Len(ds) -> 1..maxClose]} :
           ds \in {SetToSeq(T) : T \in {U \in SUBSET D : Cardinality(U) <= maxLen}}}

Series == SeriesOver(Dates, MaxLen, MaxClose)

(***************************************************************************)
(* Errors                                                                  *)
(***************************************************************************)
\* throw new Error('Insufficient data to calculate statistics')
InsufficientData == [error |-> "Insufficient data to calculate statistics"]
\* reading a property of undefined (data[0].date on an empty array)
TypeError == [error |-> "TypeError"]

IsError(r) == "error" \in DOMAIN r

(***************************************************************************)
(* calculateDrawdownSeries                                                 *)
(***************************************************************************)
\* DrawdownSeriesStep with the running peak never raised
DrawdownSeriesStepStalePeak(acc, point) ==
    LET peak == acc.peak
        drawdown == RMul(RNeg(Rat(peak - point.close, peak)), Hundred)
        deeper == RLt(drawdown, RNeg(acc.maxDrawdown))
    IN  [peak |-> peak,
         data |-> Append(acc.data, [date |-> point.date, drawdown |-> drawdown]),
         maxDrawdown |-> IF deeper THEN RNeg(drawdown) ELSE acc.maxDrawdown,
         maxDrawdownDate |-> IF deeper THEN point.date ELSE acc.maxDrawdownDate]

\* one iteration of the loop over the points
DrawdownSeriesStep(acc, point) ==
    LET peak == IF point.close > acc.peak THEN point.close ELSE acc.peak
        drawdown == RMul(RNeg(Rat(peak - point.close, peak)), Hundred)
        deeper == RLt(drawdown, RNeg(acc.maxDrawdown))
    IN  [peak |-> peak,
         data |-> Append(acc.data, [date |-> point.date, drawdown |-> drawdown]),
         maxDrawdown |-> IF deeper THEN RNeg(drawdown) ELSE acc.maxDrawdown,
         maxDrawdownDate |-> IF deeper THEN point.date ELSE acc.maxDrawdownDate]

RECURSIVE DrawdownSeriesLoop(_, _, _)
DrawdownSeriesLoop(data, i, acc) ==
    IF i > Len(data) THEN acc
    ELSE DrawdownSeriesLoop(data, i + 1, DrawdownSeriesStep(acc, data[i]))

calculateDrawdownSeries(data) ==
    IF Len(data) = 0
    THEN [data |-> <<>>, maxDrawdown |-> Zero, maxDrawdownDate |-> EmptyString,
          currentDrawdown |-> Zero]
    ELSE LET r == DrawdownSeriesLoop(data, 1,
                      [peak |-> data[1].close, data |-> <<>>,
                       maxDrawdown |-> Zero, maxDrawdownDate |-> data[1].date])
         IN  [data |-> r.data,
              maxDrawdown |-> r.maxDrawdown,
              maxDrawdownDate |-> r.maxDrawdownDate,
              currentDrawdown |->
                  IF Len(r.data) > 0 THEN RNeg(r.data[Len(r.data)].drawdown) ELSE Zero]

(***************************************************************************)
(* findExtremes                                                            *)
(***************************************************************************)
\* ExtremesStep with non-strict comparisons: the last occurrence wins a tie
ExtremesStepLastWins(acc, point) ==
    [highPoint |-> IF point.close >= acc.highPoint.price
                   THEN [date |-> point.date, price |-> point.close]
                   ELSE acc.highPoint,
     lowPoint |-> IF point.close <= acc.lowPoint.price
                  THEN [date |-> point.date, price |-> point.close]
                  ELSE acc.lowPoint]

\* one iteration of the loop over the points
ExtremesStep(acc, point) ==
    [highPoint |-> IF point.close > acc.highPoint.price
                   THEN [date |-> point.date, price |-> point.close]
                   ELSE acc.highPoint,
     lowPoint |-> IF point.close < acc.lowPoint.price
                  THEN [date |-> point.date, price |-> point.close]
                  ELSE acc.lowPoint]

RECURSIVE ExtremesLoop(_, _, _)
ExtremesLoop(data, i, acc) ==
    IF i > Len(data) THEN acc
    ELSE ExtremesLoop(data, i + 1, ExtremesStep(acc, data[i]))

findExtremes(data) ==
    IF Len(data) = 0 THEN TypeError
    ELSE ExtremesLoop(data, 1,
             [highPoint |-> [date |-> data[1].date, price |-> data[1].close],
              lowPoint |-> [date |-> data[1].date, price |-> data[1].close]])

(***************************************************************************)
(* filterDataByDateRange                                                   *)
(***************************************************************************)
\* InDateRange with an exclusive upper bound
InDateRangeExclusiveEnd(point, startDate, endDate) ==
    point.date >= startDate /\ point.date < endDate

\* the predicate of the filter
InDateRange(point, startDate, endDate) ==
    point.date >= startDate /\ point.date <= endDate

filterDataByDateRange(data, startDate, endDate) ==
    SelectSeq(data, LAMBDA point : InDateRange(point, startDate, endDate))

(***************************************************************************)
(* Terms for the values the source computes with Math.pow and Math.sqrt    *)
(***************************************************************************)
Null == [null |-> TRUE]

RISK_FREE_RATE == Rat(2, 100)
TRADING_DAYS_PER_YEAR == 252

\* a number known exactly
Exact(r) == [k |-> "exact", v |-> r]

\* (Math.pow(ratio, 1 / years) - 1) * 100
CagrTerm(ratio, years) == [k |-> "cagr", ratio |-> ratio, years |-> years]

\* Math.sqrt(variance) * Math.sqrt(TRADING_DAYS_PER_YEAR) * scale; the square
\* root of 0 is 0
AnnualizedStdTerm(variance, scale) ==
    IF variance = Zero THEN Exact(Zero)
    ELSE [k |-> "annualizedStd", variance |-> variance, scale |-> scale]

\* (cagr / 100 - riskFreeRate) / annualizedStd
SharpeTerm(cagr, riskFreeRate, std) ==
    [k |-> "sharpe", cagr |-> cagr, riskFreeRate |-> riskFreeRate, std |-> std]

\* a volatility taken to be positive whatever its value
TermPositiveAlways(term) == TRUE

\* term > 0, for the terms the source compares with 0: a square root of a
\* positive variance is positive
TermPositive(term) ==
    IF term.k = "exact" THEN RGt(term.v, Zero) ELSE term.k = "annualizedStd"

(***************************************************************************)
(* calculateStatistics and its helpers                                     *)
(***************************************************************************)
\* the loop body with the date of the maximum taken from the last of equal
\* drawdowns
DrawdownsStepLastOnTies(acc, point) ==
    IF point.close > acc.peak
    THEN LET drawdownDays == DaysBetween(acc.currentDrawdownStartDate, point.date)
         IN  [acc EXCEPT
                 !.longestDrawdownDays =
                     IF drawdownDays > @ THEN drawdownDays ELSE @,
                 !.peak = point.close,
                 !.peakDate = point.date,
                 !.currentDrawdownStartDate = point.date]
    ELSE LET drawdown == RMul(Rat(acc.peak - point.close, acc.peak), Hundred)
         IN  IF RLe(acc.maxDrawdown, drawdown)
             THEN [acc EXCEPT !.maxDrawdown = drawdown,
                              !.maxDrawdownDate = point.date]
             ELSE acc

\* the loop body with an episode closed by a close that only equals the peak
DrawdownsStepClosedByEqual(acc, point) ==
    IF point.close >= acc.peak
    THEN LET drawdownDays == DaysBetween(acc.currentDrawdownStartDate, point.date)
         IN  [acc EXCEPT
                 !.longestDrawdownDays =
                     IF drawdownDays > @ THEN drawdownDays ELSE @,
                 !.peak = point.close,
                 !.peakDate = point.date,
                 !.currentDrawdownStartDate = point.date]
    ELSE LET drawdown == RMul(Rat(acc.peak - point.close, acc.peak), Hundred)
         IN  IF RGt(drawdown, acc.maxDrawdown)
             THEN [acc EXCEPT !.maxDrawdown = drawdown,
                              !.maxDrawdownDate = point.date]
             ELSE acc

\* one iteration of the loop of calculateDrawdowns
DrawdownsStep(acc, point) ==
    IF point.close > acc.peak
    THEN LET drawdownDays == DaysBetween(acc.currentDrawdownStartDate, point.date)
         IN  [acc EXCEPT
                 !.longestDrawdownDays =
                     IF drawdownDays > @ THEN drawdownDays ELSE @,
                 !.peak = point.close,
                 !.peakDate = point.date,
                 !.currentDrawdownStartDate = point.date]
    ELSE LET drawdown == RMul(Rat(acc.peak - point.close, acc.peak), Hundred)
         IN  IF RGt(drawdown, acc.maxDrawdown)
             THEN [acc EXCEPT !.maxDrawdown = drawdown,
                              !.maxDrawdownDate = point.date]
             ELSE acc

RECURSIVE DrawdownsLoop(_, _, _)
DrawdownsLoop(data, i, acc) ==
    IF i > Len(data) THEN acc
    ELSE DrawdownsLoop(data, i + 1, DrawdownsStep(acc, data[i]))

calculateDrawdowns(data) ==
    LET r == DrawdownsLoop(data, 1,
                 [peak |-> data[1].close, peakDate |-> data[1].date,
                  maxDrawdown |-> Zero, maxDrawdownDate |-> data[1].date,
                  longestDrawdownDays |-> 0,
                  currentDrawdownStartDate |-> data[1].date])
        lastDate == data[Len(data)].date
        finalDrawdownDays == DaysBetween(r.currentDrawdownStartDate, lastDate)
    IN  [maxDrawdown |-> r.maxDrawdown,
         maxDrawdownDate |-> r.maxDrawdownDate,
         currentDrawdown |->
             RMul(Rat(r.peak - data[Len(data)].close, r.peak), Hundred),
         longestDrawdownDays |->
             IF finalDrawdownDays > r.longestDrawdownDays
             THEN finalDrawdownDays ELSE r.longestDrawdownDays]

\* one iteration of the loop of calculateSessionStats, i the 1-based index
\* of the current point (i >= 2)
SessionStep(acc, data, i) ==
    LET prevClose == data[i - 1].close
        currClose == data[i].close
        dailyReturn == Rat(currClose - prevClose, prevClose)
        withReturn == [acc EXCEPT !.dailyReturns = Append(@, dailyReturn)]
    IN  IF RGt(dailyReturn, Zero)
        THEN [withReturn EXCEPT !.profitSessions = @ + 1,
                                !.totalProfit = RAdd(@, dailyReturn)]
        ELSE IF RLt(dailyReturn, Zero)
        THEN [withReturn EXCEPT !.lossSessions = @ + 1,
                                !.totalLoss = RAdd(@, dailyReturn)]
        ELSE withReturn

RECURSIVE SessionLoop(_, _, _)
SessionLoop(data, i, acc) ==
    IF i > Len(data) THEN acc
    ELSE SessionLoop(data, i + 1, SessionStep(acc, data, i))

calculateSessionStats(data) ==
    LET r == SessionLoop(data, 2,
                 [dailyReturns |-> <<>>, profitSessions |-> 0, lossSessions |-> 0,
                  totalProfit |-> Zero, totalLoss |-> Zero])
    IN  [profitSessions |-> r.profitSessions,
         lossSessions |-> r.lossSessions,
         avgProfitSession |->
             IF r.profitSessions > 0
             THEN RMul(RDiv(r.totalProfit, Num(r.profitSessions)), Hundred)
             ELSE Zero,
         avgLossSession |->
             IF r.lossSessions > 0
             THEN RMul(RDiv(r.totalLoss, Num(r.lossSessions)), Hundred)
             ELSE Zero,
         dailyReturns |-> r.dailyReturns]

\* xs.reduce((a, b) => a + b, 0)
RECURSIVE SumFrom(_, _, _)
SumFrom(xs, i, acc) ==
    IF i > Len(xs) THEN acc ELSE SumFrom(xs, i + 1, RAdd(acc, xs[i]))

Sum(xs) == SumFrom(xs, 1, Zero)

\* the Bessel-corrected sample variance of at least 2 returns
SampleVariance(returns) ==
    LET mean == RDiv(Sum(returns), Num(Len(returns)))
        squaredDiffs == [i \in 1..Len(returns) |->
                            RMul(RSub(returns[i], mean), RSub(returns[i], mean))]
    IN  RDiv(Sum(squaredDiffs), Num(Len(returns) - 1))

calculateAnnualizedStd(dailyReturns, scale) ==
    IF Len(dailyReturns) < 2 THEN Exact(Zero)
    ELSE AnnualizedStdTerm(SampleVariance(dailyReturns), scale)

\* the Map from `${year}-${month}` to the close of the last point of the month
LastPriceByYearMonth(sortedData) ==
    [key \in {YearMonth(sortedData[i].date) : i \in 1..Len(sortedData)} |->
        LET last == CHOOSE i \in 1..Len(sortedData) :
                        /\ YearMonth(sortedData[i].date) = key
                        /\ \A j \in (i + 1)..Len(sortedData) :
                               YearMonth(sortedData[j].date) # key
        IN  sortedData[last].close]

\* the backward scan of findPriceAtDate: the index of the latest point dated
\* on or before the target, 0 if there is none
RECURSIVE FindIndexAtDate(_, _, _)
FindIndexAtDate(sortedData, targetDate, i) ==
    IF i < 1 THEN 0
    ELSE IF sortedData[i].date <= targetDate THEN i
    ELSE FindIndexAtDate(sortedData, targetDate, i - 1)

\* findPriceAtDate falling back to the first close when no point is early
\* enough
findPriceAtDateOrFirst(sortedData, targetDate) ==
    LET i == FindIndexAtDate(sortedData, targetDate, Len(sortedData))
    IN  IF i = 0 THEN Num(sortedData[1].close) ELSE Num(sortedData[i].close)

findPriceAtDate(sortedData, targetDate) ==
    LET i == FindIndexAtDate(sortedData, targetDate, Len(sortedData))
    IN  IF i = 0 THEN Null ELSE Num(sortedData[i].close)

\* ((endPrice - startPrice) / startPrice) * 100 for integer closes
PercentChange(startPrice, endPrice) ==
    RMul(Rat(endPrice - startPrice, startPrice), Hundred)

calculatePeriodReturns(data) ==
    IF Len(data) < 2
    THEN [ytdReturn |-> Null, oneYearReturn |-> Null, threeYearReturn |-> Null]
    ELSE LET sortedData == SortByDate(data)
             endPrice == sortedData[Len(sortedData)].close
             endDateStr == sortedData[Len(sortedData)].date
             endYear == YearOf(endDateStr)
             lastPriceByYearMonth == LastPriceByYearMonth(sortedData)
             decPriorYearKey == (endYear - 1) * 100 + 12
             oneYearAgoStr == (endYear - 1) * 10000 + MonthDay(endDateStr)
             threeYearsAgoStr == (endYear - 3) * 10000 + MonthDay(endDateStr)
             oneYearStartPrice == findPriceAtDate(sortedData, oneYearAgoStr)
             threeYearStartPrice == findPriceAtDate(sortedData, threeYearsAgoStr)
         IN  [ytdReturn |->
                  IF decPriorYearKey \in DOMAIN lastPriceByYearMonth
                  THEN PercentChange(lastPriceByYearMonth[decPriorYearKey], endPrice)
                  ELSE Null,
              oneYearReturn |->
                  IF oneYearStartPrice # Null
                  THEN PercentChange(oneYearStartPrice[1], endPrice)
                  ELSE Null,
              threeYearReturn |->
                  IF threeYearStartPrice # Null
                  THEN PercentChange(threeYearStartPrice[1], endPrice)
                  ELSE Null]

\* one iteration of the min/max scan of calculateStatistics
MinMaxStep(acc, point) ==
    LET lower == point.close < acc.minPrice
        higher == point.close > acc.maxPrice
    IN  [minPrice |-> IF lower THEN point.close ELSE acc.minPrice,
         minPriceDate |-> IF lower THEN point.date ELSE acc.minPriceDate,
         maxPrice |-> IF higher THEN point.close ELSE acc.maxPrice,
         maxPriceDate |-> IF higher THEN point.date ELSE acc.maxPriceDate]

RECURSIVE MinMaxLoop(_, _, _)
MinMaxLoop(data, i, acc) ==
    IF i > Len(data) THEN acc
    ELSE MinMaxLoop(data, i + 1, MinMaxStep(acc, data[i]))

\* the guard of calculateStatistics off by one
HasInsufficientDataBelowOne(data) == Len(data) < 1

\* the guard of calculateStatistics: data.length < 2
HasInsufficientData(data) == Len(data) < 2

calculateStatistics(ticker, data) ==
    IF HasInsufficientData(data) THEN InsufficientData
    ELSE LET startPrice == data[1].close
             endPrice == data[Len(data)].close
             startDate == data[1].date
             endDate == data[Len(data)].date
             years == YearsBetween(startDate, endDate)
             cagr == IF RGt(years, Zero)
                     THEN CagrTerm(Rat(endPrice, startPrice), years)
                     ELSE Exact(Zero)
             mm == MinMaxLoop(data, 1,
                       [minPrice |-> data[1].close, minPriceDate |-> data[1].date,
                        maxPrice |-> data[1].close, maxPriceDate |-> data[1].date])
             dd == calculateDrawdowns(data)
             ss == calculateSessionStats(data)
             annualizedStd == calculateAnnualizedStd(ss.dailyReturns, 1)
             pr == calculatePeriodReturns(data)
         IN  [ticker |-> ticker,
              startDate |-> startDate,
              endDate |-> endDate,
              totalDays |-> Len(data),
              periodReturn |-> PercentChange(startPrice, endPrice),
              cagr |-> cagr,
              growthOf1 |-> Rat(endPrice, startPrice),
              ytdReturn |-> pr.ytdReturn,
              oneYearReturn |-> pr.oneYearReturn,
              threeYearReturn |-> pr.threeYearReturn,
              maxDrawdown |-> dd.maxDrawdown,
              maxDrawdownDate |-> dd.maxDrawdownDate,
              currentDrawdown |-> dd.currentDrawdown,
              toReturnToATH |->
                  IF mm.maxPrice > endPrice
                  THEN RMul(RSub(Rat(mm.maxPrice, endPrice), One), Hundred)
                  ELSE Zero,
              longestDrawdownDays |-> dd.longestDrawdownDays,
              startPrice |-> startPrice,
              endPrice |-> endPrice,
              minPrice |-> mm.minPrice,
              minPriceDate |-> mm.minPriceDate,
              maxPrice |-> mm.maxPrice,
              maxPriceDate |-> mm.maxPriceDate,
              profitSessions |-> ss.profitSessions,
              lossSessions |-> ss.lossSessions,
              avgProfitSession |-> ss.avgProfitSession,
              avgLossSession |-> ss.avgLossSession,
              annualizedStd |->
                  IF annualizedStd.k = "exact" THEN annualizedStd
                  ELSE [annualizedStd EXCEPT !.scale = @ * 100],
              sharpeRatio |->
                  IF TermPositive(annualizedStd)
                  THEN SharpeTerm(cagr, RISK_FREE_RATE, annualizedStd)
                  ELSE Exact(Zero)]

(***************************************************************************)
(* normalizeDataForChart                                                   *)
(***************************************************************************)
TickerData(ticker, data) == [ticker |-> ticker, data |-> data]

\* the Map date -> close of one series (a later point of the same date
\* overwrites an earlier one)
DateMapOf(data) ==
    [date \in {data[i].date : i \in 1..Len(data)} |->
        LET last == CHOOSE i \in 1..Len(data) :
                        /\ data[i].date = date
                        /\ \A j \in (i + 1)..Len(data) : data[j].date # date
        IN  data[last].close]

\* tickerDateMap: ticker -> date map (a later entry of the same ticker
\* overwrites an earlier one)
TickerDateMap(tickersData) ==
    [ticker \in {tickersData[i].ticker : i \in 1..Len(tickersData)} |->
        LET last == CHOOSE i \in 1..Len(tickersData) :
                        /\ tickersData[i].ticker = ticker
                        /\ \A j \in (i + 1)..Len(tickersData) :
                               tickersData[j].ticker # ticker
        IN  DateMapOf(tickersData[last].data)]

AllDates(tickersData) ==
    UNION {{tickersData[i].data[j].date : j \in 1..Len(tickersData[i].data)} :
           i \in 1..Len(tickersData)}

\* tickersData.every(td => tickerDateMap.get(td.ticker)?.has(date))
AllHaveData(tickersData, tickerDateMap, date) ==
    \A i \in 1..Len(tickersData) :
        date \in DOMAIN tickerDateMap[tickersData[i].ticker]

\* the first date of sortedDates on which all tickers have data, Null if none
RECURSIVE FirstCommonDate(_, _, _, _)
FirstCommonDate(tickersData, tickerDateMap, sortedDates, i) ==
    IF i > Len(sortedDates) THEN Null
    ELSE IF AllHaveData(tickersData, tickerDateMap, sortedDates[i])
    THEN [date |-> sortedDates[i]]
    ELSE FirstCommonDate(tickersData, tickerDateMap, sortedDates, i + 1)

\* sortedDates.indexOf(date), 1-based; 0 when absent
IndexOfDate(sortedDates, date) ==
    IF \E i \in 1..Len(sortedDates) : sortedDates[i] = date
    THEN CHOOSE i \in 1..Len(sortedDates) :
             sortedDates[i] = date /\ \A j \in 1..(i - 1) : sortedDates[j] # date
    ELSE 0

\* BasePriceOf with the base always taken from the first point of the series
BasePriceOfFirstPoint(tickerData, dateMap, commonStartDate) ==
    tickerData.data[1].close

\* dateMap.get(commonStartDate) || tickerData.data[0].close
BasePriceOf(tickerData, dateMap, commonStartDate) ==
    IF commonStartDate \in DOMAIN dateMap
    THEN dateMap[commonStartDate]
    ELSE tickerData.data[1].close

\* ChartValue with the rebasing applied to a single ticker as well
ChartValueAlwaysRebased(price, basePrice, tickerCount) ==
    RMul(Rat(price, basePrice), Hundred)

\* the value of one ticker in one row: the raw price for a single ticker,
\* (price / basePrice) * 100 for several
ChartValue(price, basePrice, tickerCount) ==
    IF tickerCount = 1 THEN Num(price) ELSE RMul(Rat(price, basePrice), Hundred)

\* the row of one date: the tickers with a price on that date and their values
ChartRow(tickersData, tickerDateMap, basePrices, date) ==
    [date |-> date,
     values |->
        [ticker \in {tk \in DOMAIN tickerDateMap : date \in DOMAIN tickerDateMap[tk]} |->
            ChartValue(tickerDateMap[ticker][date], basePrices[ticker],
                       Len(tickersData))]]

RECURSIVE ChartRows(_, _, _, _, _, _)
ChartRows(tickersData, tickerDateMap, basePrices, sortedDates, i, chartData) ==
    IF i > Len(sortedDates) THEN chartData
    ELSE LET point == ChartRow(tickersData, tickerDateMap, basePrices, sortedDates[i])
         IN  ChartRows(tickersData, tickerDateMap, basePrices, sortedDates, i + 1,
                       IF DOMAIN point.values # {}
                       THEN Append(chartData, point) ELSE chartData)

\* the rows returned are wrapped in a record, [rows |-> ...], so that the
\* result and a thrown error are values of one kind
normalizeDataForChart(tickersData) ==
    IF Len(tickersData) = 0 THEN [rows |-> <<>>]
    ELSE
    LET tickerDateMap == TickerDateMap(tickersData)
        sortedDates == SetToSeq(AllDates(tickersData))
        common == FirstCommonDate(tickersData, tickerDateMap, sortedDates, 1)
    IN  IF common = Null /\ Len(tickersData[1].data) = 0
        THEN TypeError              \* tickersData[0].data[0] is undefined
        ELSE
        LET commonStartDate ==
                IF common # Null THEN common.date ELSE tickersData[1].data[1].date
            \* a ticker without the start date and without any point
            noBase == \E i \in 1..Len(tickersData) :
                         /\ commonStartDate \notin
                                DOMAIN tickerDateMap[tickersData[i].ticker]
                         /\ Len(tickersData[i].data) = 0
        IN  IF noBase THEN TypeError
            ELSE
            LET basePrices ==
                    [ticker \in DOMAIN tickerDateMap |->
                        LET last == CHOOSE i \in 1..Len(tickersData) :
                                /\ tickersData[i].ticker = ticker
                                /\ \A j \in (i + 1)..Len(tickersData) :
                                       tickersData[j].ticker # ticker
                        IN  BasePriceOf(tickersData[last], tickerDateMap[ticker],
                                        commonStartDate)]
                startIndex == IndexOfDate(sortedDates, commonStartDate)
            IN  [rows |-> ChartRows(tickersData, tickerDateMap, basePrices,
                                    sortedDates, startIndex, <<>>)]

(***************************************************************************)
(* getDateRange                                                            *)
(***************************************************************************)
\* GetDateRangeStep with the comparisons reversed: the union of the ranges
GetDateRangeStepUnion(acc, tickerData) ==
    IF Len(tickerData.data) > 0
    THEN LET firstDate == tickerData.data[1].date
             lastDate == tickerData.data[Len(tickerData.data)].date
         IN  [minDate |-> IF firstDate < acc.minDate THEN firstDate ELSE acc.minDate,
              maxDate |-> IF lastDate > acc.maxDate THEN lastDate ELSE acc.maxDate]
    ELSE acc

\* one iteration of the loop over the tickers
GetDateRangeStep(acc, tickerData) ==
    IF Len(tickerData.data) > 0
    THEN LET firstDate == tickerData.data[1].date
             lastDate == tickerData.data[Len(tickerData.data)].date
         IN  [minDate |-> IF firstDate > acc.minDate THEN firstDate ELSE acc.minDate,
              maxDate |-> IF lastDate < acc.maxDate THEN lastDate ELSE acc.maxDate]
    ELSE acc

RECURSIVE GetDateRangeLoop(_, _, _)
GetDateRangeLoop(tickersData, i, acc) ==
    IF i > Len(tickersData) THEN acc
    ELSE GetDateRangeLoop(tickersData, i + 1, GetDateRangeStep(acc, tickersData[i]))

getDateRange(tickersData) ==
    IF Len(tickersData) = 0
    THEN [minDate |-> EmptyString, maxDate |-> EmptyString]
    ELSE LET first == tickersData[1].data
         IN  GetDateRangeLoop(tickersData, 1,
                 [minDate |-> IF Len(first) > 0 THEN first[1].date ELSE EmptyString,
                  maxDate |-> IF Len(first) > 0 THEN first[Len(first)].date
                              ELSE EmptyString])

(***************************************************************************)
(* calculateRollingReturns                                                 *)
(***************************************************************************)
IsLeapYear(y) == (y % 4 = 0 /\ y % 100 # 0) \/ y % 400 = 0

DaysInMonth(y, m) ==
    IF m = 2 THEN (IF IsLeapYear(y) THEN 29 ELSE 28)
    ELSE IF m \in {4, 6, 9, 11} THEN 30 ELSE 31

\* the calendar day before the date
DayBefore(date) ==
    LET y == YearOf(date)
        m == MonthOf(date)
        d == DayOf(date)
    IN  IF d > 1 THEN MkDate(y, m, d - 1)
        ELSE IF m > 1 THEN MkDate(y, m - 1, DaysInMonth(y, m - 1))
        ELSE MkDate(y - 1, 12, 31)

\* the calendar day after the date
DayAfter(date) ==
    LET y == YearOf(date)
        m == MonthOf(date)
        d == DayOf(date)
    IN  IF d < DaysInMonth(y, m) THEN MkDate(y, m, d + 1)
        ELSE IF m < 12 THEN MkDate(y, m + 1, 1)
        ELSE MkDate(y + 1, 1, 1)

\* Date.setFullYear on a calendar day: the same month and day of the year;
\* 29 February of a year that has none rolls over to 1 March
SetFullYear(date, year) ==
    IF MonthDay(date) = 229 /\ ~IsLeapYear(year)
    THEN MkDate(year, 3, 1)
    ELSE MkDate(year, MonthOf(date), DayOf(date))

\* targetDate.setFullYear(targetDate.getFullYear() - rollingYears) followed
\* by toISOString().slice(0, 10).  new Date("YYYY-MM-DD") is midnight UTC;
\* getFullYear and setFullYear work on the local calendar day and
\* toISOString on the UTC one.  On a host at or east of UTC both are the day
\* of the date; on a host west of UTC (at a fixed offset) the local day is
\* the day before, and the UTC day of the result the day after the local one.
SubtractYears(date, rollingYears, west) ==
    IF west
    THEN DayAfter(SetFullYear(DayBefore(date), YearOf(DayBefore(date)) - rollingYears))
    ELSE SetFullYear(date, YearOf(date) - rollingYears)

\* the while loop that advances the start cursor for the end index i
\* (indices are 1-based: the source's startIdx < i - 1 is startIdx < i - 1
\* here as well, both indices being shifted by one)
RECURSIVE AdvanceStart(_, _, _, _)
AdvanceStart(data, startIdx, i, targetDateStr) ==
    IF startIdx < i - 1 /\ data[startIdx + 1].date <= targetDateStr
    THEN AdvanceStart(data, startIdx + 1, i, targetDateStr)
    ELSE startIdx

\* RollingCagr without the special case of the one-year window
RollingCagrAlwaysCompounded(rollingYears, startPrice, endPrice, years) ==
    CagrTerm(Rat(endPrice, startPrice), years)

\* the return of one window: the simple return for a one-year window, the
\* compounded annual rate over the elapsed years otherwise
RollingCagr(rollingYears, startPrice, endPrice, years) ==
    IF rollingYears = 1
    THEN Exact(RMul(RSub(Rat(endPrice, startPrice), One), Hundred))
    ELSE CagrTerm(Rat(endPrice, startPrice), years)

\* one iteration of the loop over the end index i; acc holds the cursor and
\* the points emitted so far
RollingStep(data, rollingYears, west, i, acc) ==
    LET targetDateStr == SubtractYears(data[i].date, rollingYears, west)
        startIdx == AdvanceStart(data, acc.startIdx, i, targetDateStr)
        moved == [acc EXCEPT !.startIdx = startIdx]
        startPrice == data[startIdx].close
        endPrice == data[i].close
        years == YearsBetween(data[startIdx].date, data[i].date)
    IN  IF data[startIdx].date > targetDateStr THEN moved
        ELSE IF startPrice <= 0 THEN moved
        ELSE IF RLe(years, Zero) THEN moved
        ELSE [moved EXCEPT !.result =
                 Append(@, [date |-> data[i].date,
                            rollingCagr |->
                                RollingCagr(rollingYears, startPrice, endPrice, years),
                            startDate |-> data[startIdx].date,
                            startPrice |-> startPrice,
                            endPrice |-> endPrice])]

RECURSIVE RollingLoop(_, _, _, _, _)
RollingLoop(data, rollingYears, west, i, acc) ==
    IF i > Len(data) THEN acc
    ELSE RollingLoop(data, rollingYears, west, i + 1,
                     RollingStep(data, rollingYears, west, i, acc))

calculateRollingReturns(data, rollingYears, west) ==
    IF Len(data) = 0 \/ rollingYears < 1 THEN <<>>
    ELSE RollingLoop(data, rollingYears, west, 1,
                     [startIdx |-> 1, result |-> <<>>]).result

(***************************************************************************)
(* The trend-following backtest                                            *)
(*                                                                         *)
(* dailyCashReturn = Math.pow(1 + riskFreeRate, 1 / 252) - 1 is irrational *)
(* for every positive rate the dashboard offers, so an equity value is     *)
(* kept as the pair [q, cashDays] that stands for                          *)
(*     q * (1 + dailyCashReturn) ^ cashDays                                *)
(* with q an exact rational.  For riskFreeRate = 0 the daily cash return   *)
(* is exactly 0 and cashDays stays 0.  The parts of the result that need   *)
(* the order of two such values with different cashDays (the drawdown      *)
(* curves, maxDrawdown and currentDrawdown of a strategy) are not part of  *)
(* the modelled result.                                                    *)
(***************************************************************************)
NoSignal == "null"       \* the null of TrendSignal | null

EquityValue(q, cashDays) == [q |-> q, cashDays |-> cashDays]

EquityOne == EquityValue(One, 0)

\* ApplyCommission with the commission added instead of deducted
ApplyCommissionAdded(value, commission) ==
    [value EXCEPT !.q = RMul(@, RAdd(One, commission))]

\* trendFollowingValue *= (1 - commission)
ApplyCommission(value, commission) ==
    [value EXCEPT !.q = RMul(@, RSub(One, commission))]

\* the value left as it was on a day in the market
ApplyReturnIgnored(value, dailyReturn) == value

\* trendFollowingValue * (1 + dailyReturn)
ApplyReturn(value, dailyReturn) ==
    [value EXCEPT !.q = RMul(@, RAdd(One, dailyReturn))]

\* trendFollowingValue * (1 + dailyCashReturn)
ApplyCash(value, riskFreeRate) ==
    IF riskFreeRate = Zero THEN value ELSE [value EXCEPT !.cashDays = @ + 1]

\* the last index of sortedData whose month is yearMonth
LastIndexOfMonth(sortedData, yearMonth) ==
    LET S == {i \in 1..Len(sortedData) : YearMonth(sortedData[i].date) = yearMonth}
    IN  CHOOSE i \in S : \A j \in S : j <= i

extractMonthlyEndPrices(data) ==
    IF Len(data) = 0 THEN <<>>
    ELSE LET sortedData == SortByDate(data)
             months == SetToSeq({YearMonth(sortedData[i].date) :
                                     i \in 1..Len(sortedData)})
         IN  [k \in 1..Len(months) |->
                 LET last == sortedData[LastIndexOfMonth(sortedData, months[k])]
                 IN  [date |-> last.date, price |-> last.close,
                      sma10 |-> Null, signal |-> NoSignal]]

\* SignalOf with the comparison reversed
SignalOfReversed(price, sma10) ==
    IF RLt(Num(price), sma10) THEN "BUY" ELSE "SELL"

\* SignalOf with a price equal to the average counted as above it
SignalOfOrEqual(price, sma10) ==
    IF RLe(sma10, Num(price)) THEN "BUY" ELSE "SELL"

\* current.price > sma10 ? 'BUY' : 'SELL'
SignalOf(price, sma10) ==
    IF RGt(Num(price), sma10) THEN "BUY" ELSE "SELL"

\* the sum of the 10 monthly prices ending at index i (1-based, i >= 10)
RECURSIVE SumPrices(_, _, _)
SumPrices(monthlyPrices, j, i) ==
    IF j > i THEN 0 ELSE monthlyPrices[j].price + SumPrices(monthlyPrices, j + 1, i)

calculateMonthlySignals(monthlyPrices) ==
    [i \in 1..Len(monthlyPrices) |->
        LET current == monthlyPrices[i]
            sma10 == IF i >= 10
                     THEN Rat(SumPrices(monthlyPrices, i - 9, i), 10)
                     ELSE Null
        IN  [date |-> current.date,
             price |-> current.price,
             sma10 |-> sma10,
             signal |-> IF sma10 # Null THEN SignalOf(current.price, sma10)
                        ELSE NoSignal]]

\* signalMap: month -> the signal and sma10 of the monthly point of that month
SignalMap(monthlySignals) ==
    [yearMonth \in {YearMonth(monthlySignals[k].date) :
                       k \in {j \in 1..Len(monthlySignals) :
                                 /\ monthlySignals[j].signal # NoSignal
                                 /\ monthlySignals[j].sma10 # Null}} |->
        LET S == {j \in 1..Len(monthlySignals) :
                     /\ YearMonth(monthlySignals[j].date) = yearMonth
                     /\ monthlySignals[j].signal # NoSignal
                     /\ monthlySignals[j].sma10 # Null}
            last == CHOOSE j \in S : \A l \in S : l <= j
        IN  [signal |-> monthlySignals[last].signal,
             sma10 |-> monthlySignals[last].sma10]]

\* the latest signal dated on or before the first simulated day, SELL if none
RECURSIVE InitialSignal(_, _, _, _)
InitialSignal(monthlySignals, firstDay, k, currentSignal) ==
    IF k > Len(monthlySignals) THEN currentSignal
    ELSE InitialSignal(monthlySignals, firstDay, k + 1,
             IF monthlySignals[k].signal # NoSignal /\ monthlySignals[k].date <= firstDay
             THEN monthlySignals[k].signal ELSE currentSignal)

\* the sma10 of the latest monthly point dated on or before the day
RECURSIVE Sma10ForDate(_, _, _, _)
Sma10ForDate(monthlySignals, date, k, sma10ForDate) ==
    IF k > Len(monthlySignals) THEN sma10ForDate
    ELSE Sma10ForDate(monthlySignals, date, k + 1,
             IF monthlySignals[k].date <= date /\ monthlySignals[k].sma10 # Null
             THEN monthlySignals[k].sma10 ELSE sma10ForDate)

\* SignalChanged holding whenever the signal looked up is BUY
SignalChangedToBuy(currentSignal, lastSignal) == currentSignal = "BUY"

\* SignalChanged holding at every month start that has a signal
SignalChangedAlways(currentSignal, lastSignal) == TRUE

\* currentSignal !== lastSignal
SignalChanged(currentSignal, lastSignal) == currentSignal # lastSignal

\* PrevMonthKey looking the signal up under the month of the day itself
PrevMonthKeyOwnMonth(prevMonth, currentMonth) == currentMonth

\* the key of signalMap.get(prevMonth) on the first day of currentMonth
PrevMonthKey(prevMonth, currentMonth) == prevMonth

\* one iteration of the daily loop, i the 1-based index of the day
EquityStep(acc, relevantDaily, i, signalMap, monthlySignals, basePrice, riskFreeRate, commission) ==
    LET day == relevantDaily[i]
        currentMonth == YearMonth(day.date)
        newMonth == i > 1 /\ YearMonth(relevantDaily[i - 1].date) # currentMonth
        prevMonth == YearMonth(relevantDaily[i - 1].date)
        key == PrevMonthKey(prevMonth, currentMonth)
        hasSignal == newMonth /\ key \in DOMAIN signalMap
        currentSignal == IF hasSignal THEN signalMap[key].signal
                         ELSE acc.currentSignal
        changed == hasSignal /\ SignalChanged(currentSignal, acc.lastSignal)
        afterCommission == IF changed
                           THEN ApplyCommission(acc.trendFollowingValue, commission)
                           ELSE acc.trendFollowingValue
        dailyReturn == Rat(day.close - acc.prevPrice, acc.prevPrice)
        trendFollowingValue ==
            IF i > 1
            THEN IF currentSignal = "BUY"
                 THEN ApplyReturn(afterCommission, dailyReturn)
                 ELSE ApplyCash(afterCommission, riskFreeRate)
            ELSE afterCommission
        sma10ForDate == Sma10ForDate(monthlySignals, day.date, 1, Null)
    IN  [trendFollowingValue |-> trendFollowingValue,
         currentSignal |-> currentSignal,
         lastSignal |-> IF changed THEN currentSignal ELSE acc.lastSignal,
         prevPrice |-> day.close,
         signalDates |-> IF changed
                         THEN Append(acc.signalDates,
                                     [date |-> day.date, signal |-> currentSignal])
                         ELSE acc.signalDates,
         chartData |-> Append(acc.chartData,
             [date |-> day.date,
              buyHold |-> Rat(day.close, basePrice),
              trendFollowing |-> trendFollowingValue,
              sma10 |-> IF sma10ForDate # Null
                        THEN RDiv(sma10ForDate, Num(basePrice)) ELSE Null,
              signal |-> currentSignal])]

\* the daily loop; every iteration pushes one row, so the index of the next
\* day is the number of rows plus one
RECURSIVE EquityLoop(_, _, _, _, _, _, _)
EquityLoop(acc, relevantDaily, signalMap, monthlySignals, basePrice, riskFreeRate, commission) ==
    IF Len(acc.chartData) >= Len(relevantDaily) THEN acc
    ELSE EquityLoop(EquityStep(acc, relevantDaily, Len(acc.chartData) + 1,
                               signalMap, monthlySignals, basePrice,
                               riskFreeRate, commission),
                    relevantDaily, signalMap, monthlySignals, basePrice,
                    riskFreeRate, commission)

NoEquity == [chartData |-> <<>>, signalDates |-> <<>>]

calculateTrendFollowingEquity(dailyData, monthlySignals, riskFreeRate, commission) ==
    IF Len(dailyData) = 0 \/ Len(monthlySignals) < 10 THEN NoEquity
    ELSE
    LET sortedDaily == SortByDate(dailyData)
        signalMap == SignalMap(monthlySignals)
        withSignal == {k \in 1..Len(monthlySignals) :
                          monthlySignals[k].signal # NoSignal}
    IN  IF withSignal = {} THEN NoEquity
        ELSE
        LET firstSignalDate ==
                monthlySignals[CHOOSE k \in withSignal :
                                   \A l \in withSignal : k <= l].date
            onOrAfter == {n \in 1..Len(sortedDaily) :
                             sortedDaily[n].date >= firstSignalDate}
        IN  IF onOrAfter = {} THEN NoEquity
            ELSE
            LET startIndex == CHOOSE n \in onOrAfter : \A l \in onOrAfter : n <= l
                relevantDaily == SubSeq(sortedDaily, startIndex, Len(sortedDaily))
                basePrice == relevantDaily[1].close
                currentSignal == InitialSignal(monthlySignals, relevantDaily[1].date,
                                               1, "SELL")
                r == EquityLoop([trendFollowingValue |-> EquityOne,
                                 currentSignal |-> currentSignal,
                                 lastSignal |-> currentSignal,
                                 prevPrice |-> basePrice,
                                 signalDates |-> <<>>,
                                 chartData |-> <<>>],
                                relevantDaily, signalMap, monthlySignals,
                                basePrice, riskFreeRate, commission)
            IN  [chartData |-> r.chartData, signalDates |-> r.signalDates]

\* equityCurve[i] / equityCurve[i - 1], the daily return plus 1
GrowthOf(prev, curr) ==
    EquityValue(RDiv(curr.q, prev.q), curr.cashDays - prev.cashDays)

\* the statistics of one equity curve that do not depend on the order of
\* two values: finalAmount, totalReturn, cagr, annualizedStd, sharpeRatio
calculateStrategyStatistics(equityCurve, dates, riskFreeRate) ==
    IF Len(equityCurve) < 2
    THEN [finalAmount |-> EquityOne, cagr |-> Exact(Zero),
          totalReturn |-> Exact(Zero), annualizedStd |-> Exact(Zero),
          sharpeRatio |-> Exact(Zero)]
    ELSE LET finalAmount == equityCurve[Len(equityCurve)]
             years == YearsBetween(dates[1], dates[Len(dates)])
             cagr == IF RGt(years, Zero) THEN CagrTerm(finalAmount, years)
                     ELSE Exact(Zero)
             growth == [i \in 1..(Len(equityCurve) - 1) |->
                           GrowthOf(equityCurve[i], equityCurve[i + 1])]
             \* the sample variance is 0 exactly when all returns are equal
             annualizedStd ==
                 IF Len(growth) >= 2 /\ \E i \in 2..Len(growth) : growth[i] # growth[1]
                 THEN [k |-> "annualizedStd", scale |-> 100]
                 ELSE Exact(Zero)
         IN  [finalAmount |-> finalAmount,
              cagr |-> cagr,
              totalReturn |-> [k |-> "totalReturn", finalAmount |-> finalAmount],
              annualizedStd |-> annualizedStd,
              sharpeRatio |-> IF TermPositive(annualizedStd)
                              THEN SharpeTerm(cagr, riskFreeRate, annualizedStd)
                              ELSE Exact(Zero)]

MIN_DAILY_POINTS == 252     \* data.length < 252
MIN_MONTHLY_POINTS == 12    \* monthlyPrices.length < 12

\* HasTooFewMonths with the threshold of the signals, 10, in place of 12
HasTooFewMonthsBelowTen(monthlyPrices) == Len(monthlyPrices) < 10

\* monthlyPrices.length < 12
HasTooFewMonths(monthlyPrices) == Len(monthlyPrices) < MIN_MONTHLY_POINTS

calculateTrendFollowingAnalysis(data, riskFreeRate, commission) ==
    IF Len(data) < MIN_DAILY_POINTS THEN Null
    ELSE
    LET monthlyPrices == extractMonthlyEndPrices(data)
    IN  IF HasTooFewMonths(monthlyPrices) THEN Null
        ELSE
        LET monthlySignals == calculateMonthlySignals(monthlyPrices)
            equity == calculateTrendFollowingEquity(data, monthlySignals,
                                                    riskFreeRate, commission)
            chartData == equity.chartData
        IN  IF Len(chartData) = 0 THEN Null
            ELSE
            LET buyHoldEquity == [i \in 1..Len(chartData) |->
                                     EquityValue(chartData[i].buyHold, 0)]
                trendFollowingEquity == [i \in 1..Len(chartData) |->
                                            chartData[i].trendFollowing]
                dates == [i \in 1..Len(chartData) |-> chartData[i].date]
            IN  [chartData |-> chartData,
                 buyHoldStats |->
                     calculateStrategyStatistics(buyHoldEquity, dates, riskFreeRate),
                 trendFollowingStats |->
                     calculateStrategyStatistics(trendFollowingEquity, dates,
                                                 riskFreeRate),
                 currentSignal |->
                     IF chartData[Len(chartData)].signal = NoSignal THEN "SELL"
                     ELSE chartData[Len(chartData)].signal,
                 signalDates |-> equity.signalDates]

(***************************************************************************)
(* signalStats of the trend-following section                              *)
(***************************************************************************)
\* priceByDate.get(date): the buyHold of the row of that date, Null for
\* undefined
PriceByDate(chartData, date) ==
    LET rows == {i \in 1..Len(chartData) : chartData[i].date = date}
    IN  IF rows = {} THEN Null
        ELSE chartData[CHOOSE i \in rows : \A j \in rows : j <= i].buyHold

\* a round trip counted as successful also when the two prices are equal
IsSuccessfulOrEqual(price, lastSellPrice) == RLe(price, lastSellPrice)

\* price < lastSellPrice
IsSuccessful(price, lastSellPrice) == RLt(price, lastSellPrice)

\* one iteration of the loop over signalDates
RoundTripStep(acc, signal, chartData) ==
    LET price == PriceByDate(chartData, signal.date)
    IN  IF price = Null THEN acc
        ELSE IF signal.signal = "SELL" THEN [acc EXCEPT !.lastSellPrice = price]
        ELSE IF signal.signal = "BUY" /\ acc.lastSellPrice # Null
        THEN [totalRoundTrips |-> acc.totalRoundTrips + 1,
              successfulRoundTrips |->
                  IF IsSuccessful(price, acc.lastSellPrice)
                  THEN acc.successfulRoundTrips + 1
                  ELSE acc.successfulRoundTrips,
              lastSellPrice |-> Null]
        ELSE acc

RECURSIVE RoundTripLoop(_, _, _, _)
RoundTripLoop(signalDates, chartData, i, acc) ==
    IF i > Len(signalDates) THEN acc
    ELSE RoundTripLoop(signalDates, chartData, i + 1,
                       RoundTripStep(acc, signalDates[i], chartData))

signalStats(analysis) ==
    IF analysis = Null
    THEN [buySignals |-> 0, sellSignals |-> 0, successfulRoundTrips |-> 0,
          totalRoundTrips |-> 0, successRate |-> Null]
    ELSE LET signalDates == analysis.signalDates
             trips == RoundTripLoop(signalDates, analysis.chartData, 1,
                          [totalRoundTrips |-> 0, successfulRoundTrips |-> 0,
                           lastSellPrice |-> Null])
         IN  [buySignals |-> Cardinality({i \in 1..Len(signalDates) :
                                             signalDates[i].signal = "BUY"}),
              sellSignals |-> Cardinality({i \in 1..Len(signalDates) :
                                              signalDates[i].signal = "SELL"}),
              successfulRoundTrips |-> trips.successfulRoundTrips,
              totalRoundTrips |-> trips.totalRoundTrips,
              successRate |->
                  IF trips.totalRoundTrips > 0
                  THEN RMul(Rat(trips.successfulRoundTrips, trips.totalRoundTrips),
                            Hundred)
                  ELSE Null]

(***************************************************************************)
(* calculateReturnsTable                                                   *)
(*                                                                         *)
(* new Date("YYYY-MM-DD") is midnight UTC of that day, while getFullYear() *)
(* and getMonth() answer in the time zone of the host: at or east of UTC   *)
(* they give the year and month of the date itself, west of UTC those of   *)
(* the day before.  The host is an input of the call (`west`).             *)
(***************************************************************************)
NullDate == -1      \* the null of a date field (string | null)

\* the local calendar day of new Date(date)
LocalDay(date, west) == IF west THEN DayBefore(date) ELSE date

\* new Date(date).getFullYear()
GetFullYear(date, west) == YearOf(LocalDay(date, west))

\* new Date(date).getMonth(), 0 to 11
GetMonth(date, west) == MonthOf(LocalDay(date, west)) - 1

\* the key `${year}-${month}` of the maps, month 0 to 11
MonthKey(year, month) == year * 100 + month

\* dataByYearMonth.get(key), sorted by date
MonthData(data, west, key) ==
    SortByDate(SelectSeq(data, LAMBDA point :
        MonthKey(GetFullYear(point.date, west), GetMonth(point.date, west)) = key))

NoDetail ==
    [returnValue |-> Null, startPrice |-> Null, endPrice |-> Null,
     startDate |-> NullDate, endDate |-> NullDate]

\* date || null
DateOrNull(date) == IF date = EmptyString THEN NullDate ELSE date

\* the detail object with the two prices exchanged
ReturnDetailPricesSwapped(returnValue, startPrice, endPrice, startDate, endDate) ==
    [returnValue |-> returnValue,
     startPrice |-> Num(endPrice), endPrice |-> Num(startPrice),
     startDate |-> DateOrNull(startDate), endDate |-> DateOrNull(endDate)]

\* the detail object built next to a return that was computed
ReturnDetail(returnValue, startPrice, endPrice, startDate, endDate) ==
    [returnValue |-> returnValue,
     startPrice |-> Num(startPrice), endPrice |-> Num(endPrice),
     startDate |-> DateOrNull(startDate), endDate |-> DateOrNull(endDate)]

\* one iteration of the loop that counts the new all-time highs
AthStep(acc, point, west) ==
    IF point.close > acc.globalATH
    THEN [globalATH |-> point.close,
          highs |-> Append(acc.highs, GetFullYear(point.date, west))]
    ELSE acc

RECURSIVE AthLoop(_, _, _, _)
AthLoop(sortedData, west, i, acc) ==
    IF i > Len(sortedData) THEN acc
    ELSE AthLoop(sortedData, west, i + 1, AthStep(acc, sortedData[i], west))

\* athCountByYear.get(year) || 0
AthCount(sortedData, west, year) ==
    LET highs == AthLoop(sortedData, west, 1,
                         [globalATH |-> sortedData[1].close, highs |-> <<>>]).highs
    IN  Cardinality({i \in 1..Len(highs) : highs[i] = year})

\* YearDrawdownStep with the fall measured against the close, not the peak
YearDrawdownStepOverClose(acc, point) ==
    LET peak == IF point.close > acc.peak THEN point.close ELSE acc.peak
        dd == RMul(Rat(peak - point.close, point.close), Hundred)
    IN  [peak |-> peak, maxDD |-> IF RGt(dd, acc.maxDD) THEN dd ELSE acc.maxDD]

\* one iteration of the loop of the maximum drawdown within a year
YearDrawdownStep(acc, point) ==
    LET peak == IF point.close > acc.peak THEN point.close ELSE acc.peak
        dd == RMul(Rat(peak - point.close, peak), Hundred)
    IN  [peak |-> peak, maxDD |-> IF RGt(dd, acc.maxDD) THEN dd ELSE acc.maxDD]

RECURSIVE YearDrawdownLoop(_, _, _)
YearDrawdownLoop(points, i, acc) ==
    IF i > Len(points) THEN acc
    ELSE YearDrawdownLoop(points, i + 1, YearDrawdownStep(acc, points[i]))

\* the last point of a month that has data
LastPointOfMonth(data, west, key) ==
    LET monthData == MonthData(data, west, key)
    IN  monthData[Len(monthData)]

\* lastPriceByYearMonth.has(key)
HasMonth(data, west, key) == Len(MonthData(data, west, key)) >= 1

\* the key of the month before: December of the year before for January
PriorKey(year, month) ==
    IF month = 0 THEN MonthKey(year - 1, 11) ELSE MonthKey(year, month - 1)

\* whether the month of a year gets a return
HasMonthlyReturn(data, west, year, month) ==
    /\ HasMonth(data, west, MonthKey(year, month))
    /\ HasMonth(data, west, PriorKey(year, month))

\* monthlyReturns[month] of a year, month 0 to 11
MonthlyReturn(data, west, year, month) ==
    IF HasMonthlyReturn(data, west, year, month)
    THEN PercentChange(LastPointOfMonth(data, west, PriorKey(year, month)).close,
                       LastPointOfMonth(data, west, MonthKey(year, month)).close)
    ELSE Null

\* monthlyDetails[month] of a year, month 0 to 11
MonthlyDetail(data, west, year, month) ==
    IF HasMonthlyReturn(data, west, year, month)
    THEN LET prior == LastPointOfMonth(data, west, PriorKey(year, month))
             current == LastPointOfMonth(data, west, MonthKey(year, month))
         IN  ReturnDetail(PercentChange(prior.close, current.close),
                          prior.close, current.close, prior.date, current.date)
    ELSE NoDetail

\* yearDataPoints once sorted: the points of the months 0 to 11 of the year
YearDataPoints(data, west, year) ==
    SortByDate(SelectSeq(data, LAMBDA point : GetFullYear(point.date, west) = year))

\* the last month of the year that has data (the scan from 11 down to 0)
LastMonthOfYear(data, west, year) ==
    LET months == {m \in 0..11 : HasMonth(data, west, MonthKey(year, m))}
    IN  CHOOSE m \in months : \A n \in months : n <= m

\* annualReturn and annualDetail of a year that has data
AnnualReturn(data, west, year) ==
    LET decPriorKey == MonthKey(year - 1, 11)
        yearDataPoints == YearDataPoints(data, west, year)
    IN  IF HasMonth(data, west, decPriorKey)
        THEN LET decPrior == LastPointOfMonth(data, west, decPriorKey)
                 last == LastPointOfMonth(data, west,
                             MonthKey(year, LastMonthOfYear(data, west, year)))
                 annualReturn == PercentChange(decPrior.close, last.close)
             IN  [annualReturn |-> annualReturn,
                  annualDetail |-> ReturnDetail(annualReturn, decPrior.close,
                                       last.close, decPrior.date, last.date)]
        ELSE IF Len(yearDataPoints) >= 2
        THEN LET first == yearDataPoints[1]
                 last == yearDataPoints[Len(yearDataPoints)]
                 annualReturn == PercentChange(first.close, last.close)
             IN  [annualReturn |-> annualReturn,
                  annualDetail |-> ReturnDetail(annualReturn, first.close,
                                       last.close, first.date, last.date)]
        ELSE [annualReturn |-> Null, annualDetail |-> NoDetail]

\* annualStd of a year: the daily returns between consecutive points of it
AnnualStd(yearDataPoints) ==
    LET dailyReturns == [i \in 1..(Len(yearDataPoints) - 1) |->
                            Rat(yearDataPoints[i + 1].close - yearDataPoints[i].close,
                                yearDataPoints[i].close)]
    IN  IF Len(yearDataPoints) >= 2 /\ Len(dailyReturns) >= 2
        THEN AnnualizedStdTerm(SampleVariance(dailyReturns), 100)
        ELSE Null

\* maxDrawdown of a year
YearMaxDrawdown(yearDataPoints) ==
    IF Len(yearDataPoints) >= 2
    THEN YearDrawdownLoop(yearDataPoints, 1,
                          [peak |-> yearDataPoints[1].close, maxDD |-> Zero]).maxDD
    ELSE Null

\* the YearlyData record of a year
YearlyData(data, west, year) ==
    LET annual == AnnualReturn(data, west, year)
        yearDataPoints == YearDataPoints(data, west, year)
    IN  [year |-> year,
         monthlyReturns |-> [m \in 1..12 |-> MonthlyReturn(data, west, year, m - 1)],
         monthlyDetails |-> [m \in 1..12 |-> MonthlyDetail(data, west, year, m - 1)],
         annualReturn |-> annual.annualReturn,
         annualDetail |-> annual.annualDetail,
         annualStd |-> AnnualStd(yearDataPoints),
         maxDrawdown |-> YearMaxDrawdown(yearDataPoints),
         athCount |-> AthCount(SortByDate(data), west, year)]

calculateReturnsTable(data, west) ==
    IF Len(data) < 2 THEN [years |-> <<>>]
    ELSE LET years == SetToSeq({GetFullYear(data[i].date, west) : i \in 1..Len(data)})
         IN  [years |-> [k \in 1..Len(years) |-> YearlyData(data, west, years[k])]]

(***************************************************************************)
(* Home: the values the dashboard recomputes from the loaded series, the   *)
(* selected date range and the focused ticker                              *)
(***************************************************************************)
\* filteredTickersData
FilteredTickersData(rawTickersData, dateRange) ==
    IF \/ Len(rawTickersData) = 0
       \/ dateRange.start = EmptyString
       \/ dateRange.end = EmptyString
    THEN rawTickersData
    ELSE [i \in 1..Len(rawTickersData) |->
             TickerData(rawTickersData[i].ticker,
                        filterDataByDateRange(rawTickersData[i].data,
                                              dateRange.start, dateRange.end))]

\* statistics: of the series that keep two points or more
HomeStatistics(filteredTickersData) ==
    LET kept == SelectSeq(filteredTickersData, LAMBDA td : Len(td.data) >= 2)
    IN  [i \in 1..Len(kept) |-> calculateStatistics(kept[i].ticker, kept[i].data)]

\* chartData, guarded by an empty list of series only
HomeChartData(filteredTickersData) ==
    IF Len(filteredTickersData) = 0 THEN [rows |-> <<>>]
    ELSE normalizeDataForChart(filteredTickersData)

\* returnsTableData of the focused ticker (focusedTickerIndex counts from 0)
HomeReturnsTableData(filteredTickersData, focusedTickerIndex, west) ==
    IF Len(filteredTickersData) = 0 THEN <<>>
    ELSE LET idx == IF focusedTickerIndex < Len(filteredTickersData) - 1
                    THEN focusedTickerIndex ELSE Len(filteredTickersData) - 1
             data == filteredTickersData[idx + 1].data
         IN  IF Len(data) = 0 THEN <<>>
             ELSE calculateReturnsTable(data, west).years

(***************************************************************************)
(* The machine                                                             *)
(***************************************************************************)
Idle == [fn |-> "idle"]
NoResult == [none |-> TRUE]

Init == call = Idle /\ ret = NoResult

CallDrawdownSeries ==
    /\ call = Idle
    /\ \E data \in Series :
          /\ call' = [fn |-> "calculateDrawdownSeries", data |-> data]
          /\ ret' = calculateDrawdownSeries(data)

CallFindExtremes ==
    /\ call = Idle
    /\ \E data \in Series :
          /\ call' = [fn |-> "findExtremes", data |-> data]
          /\ ret' = findExtremes(data)

\* the bounds of a date filter: any date of the calendar, or the empty string
FilterBounds == Dates \cup {EmptyString, 20230101, 20231231}

CallFilter ==
    /\ call = Idle
    /\ \E data \in Series, startDate \in FilterBounds, endDate \in FilterBounds :
          /\ call' = [fn |-> "filterDataByDateRange", data |-> data,
                      startDate |-> startDate, endDate |-> endDate]
          /\ ret' = [data |-> filterDataByDateRange(data, startDate, endDate)]

CallStatistics ==
    /\ call = Idle
    /\ \E data \in Series :
          /\ call' = [fn |-> "calculateStatistics", data |-> data]
          /\ ret' = calculateStatistics("A", data)

\* the dates the inputs of the functions of several series are drawn from
PairDates == {20230130, 20230131, 20230201, 20230202}

PairSeries == SeriesOver(PairDates, MaxPairLen, MaxPairClose)

\* one ticker, or two tickers "A" and "B"; a series may be empty, as a date
\* filter can leave it
ChartInputs ==
    {<<TickerData("A", a)>> : a \in PairSeries}
        \cup {<<TickerData("A", a), TickerData("B", b)>> : a, b \in PairSeries}

CallNormalize ==
    /\ call = Idle
    /\ \E tickersData \in ChartInputs \cup {<<>>} :
          /\ call' = [fn |-> "normalizeDataForChart", tickersData |-> tickersData]
          /\ ret' = normalizeDataForChart(tickersData)

\* the series getDateRange sees are fetched ones: never empty
\* (fetchStooqData throws on an empty series); closes play no part
RangeSeries == SeriesOver(PairDates, MaxPairLen, 1) \ {<<>>}

RangeInputs ==
    {<<>>}
        \cup {<<TickerData("A", a)>> : a \in RangeSeries}
        \cup {<<TickerData("A", a), TickerData("B", b)>> : a, b \in RangeSeries}
        \cup {<<TickerData("A", a), TickerData("B", b), TickerData("C", c)>> :
                 a, b, c \in RangeSeries}

CallGetDateRange ==
    /\ call = Idle
    /\ \E tickersData \in RangeInputs :
          /\ call' = [fn |-> "getDateRange", tickersData |-> tickersData]
          /\ ret' = getDateRange(tickersData)

NextMulti ==
    \/ CallNormalize
    \/ CallGetDateRange

SpecMulti == Init /\ [][NextMulti]_vars

\* the dates the inputs of calculateRollingReturns are drawn from: around
\* the turn of February over five years, two of them leap years
RollDates == {20200228, 20200229, 20210226, 20210301, 20230302, 20240301}

RollSeries == SeriesOver(RollDates, MaxRollLen, MaxRollClose)

\* ROLLING_YEAR_OPTIONS of the rolling-returns chart
ROLLING_YEAR_OPTIONS == 1..10

CallRollingReturns ==
    /\ call = Idle
    /\ \E data \in RollSeries, rollingYears \in ROLLING_YEAR_OPTIONS, west \in BOOLEAN :
          /\ call' = [fn |-> "calculateRollingReturns", data |-> data,
                      rollingYears |-> rollingYears, west |-> west]
          /\ ret' = [points |-> calculateRollingReturns(data, rollingYears, west)]

NextRolling == CallRollingReturns

SpecRolling == Init /\ [][NextRolling]_vars

\* The histories the backtest is run on: `months` calendar months from
\* January 2023 on, DaysPerMonth trading days in each.  Month k (from 0) has
\* the level levels[k + 1]; the first nine months, which carry no signal,
\* are at level 2.
\*   "step":   every day of a month closes at the level of the month
\*   "late":   the first 10 days of a month close at the level of the month
\*             before, the other days at the level of the month
\*   "rising": the close rises by `step` every day; these histories also
\*             come with one trading day fewer and two more in each month,
\*             so that the number of days and the number of months fall on
\*             either side of their thresholds independently
TrendDate(k, d) == MkDate(2023 + (k \div 12), (k % 12) + 1, d)

TrendClose(shape, k, d, n) ==
    IF shape.kind = "rising" THEN 100 + n * shape.step
    ELSE IF shape.kind = "late" /\ d <= 10 /\ k > 0 THEN shape.levels[k]
    ELSE shape.levels[k + 1]

DailySeries(shape) ==
    [n \in 1..(shape.months * shape.days) |->
        LET k == (n - 1) \div shape.days
            d == ((n - 1) % shape.days) + 1
        IN  Point(TrendDate(k, d), TrendClose(shape, k, d, n))]

\* the tenth month, the first with a signal, is below, at or above the
\* level of the first nine; the later months are below or above it
TrendLevels(months) ==
    {[k \in 1..months |-> IF k <= 9 THEN 2 ELSE tail[k - 9]] :
        tail \in {f \in [1..(months - 9) -> 1..3] :
                     \A k \in 2..(months - 9) : f[k] # 2}}

TrendShapes ==
    UNION {{[kind |-> kind, months |-> months, days |-> DaysPerMonth,
                levels |-> levels] :
               kind \in {"step", "late"}, levels \in TrendLevels(months)}
           \cup {[kind |-> "rising", months |-> months, days |-> days,
                   step |-> step] :
                    step \in 1..2,
                    days \in {DaysPerMonth - 1, DaysPerMonth, DaysPerMonth + 2}} :
           months \in 11..MaxMonths}

\* COMMISSION_OPTIONS of the trend-following section: 0%, 0.20% (the
\* default) and 0.50% (the largest)
CommissionOptions == {Zero, Rat(1, 500), Rat(1, 200)}

\* RISK_FREE_RATE_OPTIONS of the trend-following section: 0% and 2% (the
\* default)
RiskFreeRateOptions == {Zero, Rat(2, 100)}

CallTrendFollowing ==
    /\ call = Idle
    /\ \E shape \in TrendShapes, riskFreeRate \in RiskFreeRateOptions,
          commission \in CommissionOptions :
          /\ call' = [fn |-> "calculateTrendFollowingAnalysis", shape |-> shape,
                      data |-> DailySeries(shape),
                      riskFreeRate |-> riskFreeRate, commission |-> commission]
          /\ ret' = calculateTrendFollowingAnalysis(DailySeries(shape),
                                                    riskFreeRate, commission)

NextTrend == CallTrendFollowing

SpecTrend == Init /\ [][NextTrend]_vars

\* steps 1 and 2 of the backtest: the monthly points and their signals, of
\* a short series or of a history of the backtest
CallMonthlySignals ==
    /\ call = Idle
    /\ \E data \in Series \cup {DailySeries(shape) : shape \in TrendShapes} :
          /\ call' = [fn |-> "calculateMonthlySignals", data |-> data]
          /\ ret' = [monthlySignals |->
                         calculateMonthlySignals(extractMonthlyEndPrices(data))]

NextMonthly == CallMonthlySignals

SpecMonthly == Init /\ [][NextMonthly]_vars

\* the dates of the series given to calculateReturnsTable: ends and first
\* days of months on both sides of two turns of the year, one of them a
\* first of January (a day on which currencies are quoted)
TableDates ==
    {20221130, 20221201, 20221230, 20230131, 20230201, 20230228, 20231229, 20240101}

\* the host is at or east of UTC (FALSE) or west of it (TRUE)
CallReturnsTable ==
    /\ call = Idle
    /\ \E data \in SeriesOver(TableDates, MaxTableLen, MaxTableClose), west \in BOOLEAN :
          /\ call' = [fn |-> "calculateReturnsTable", data |-> data, west |-> west]
          /\ ret' = calculateReturnsTable(data, west)

NextTable == CallReturnsTable

SpecTable == Init /\ [][NextTable]_vars

\* the trend-following section renders: the analysis of the selected series
\* and the signal statistics derived from it
RenderTrendFollowingSection ==
    /\ call = Idle
    /\ \E shape \in TrendShapes, riskFreeRate \in RiskFreeRateOptions,
          commission \in CommissionOptions :
          LET analysis == calculateTrendFollowingAnalysis(DailySeries(shape),
                                                         riskFreeRate, commission)
          IN  /\ call' = [fn |-> "TrendFollowingSection", shape |-> shape,
                          riskFreeRate |-> riskFreeRate, commission |-> commission]
              /\ ret' = [analysis |-> analysis, signalStats |-> signalStats(analysis)]

NextSection == RenderTrendFollowingSection

SpecSection == Init /\ [][NextSection]_vars

\* the dates of the equity curves given to calculateStrategyStatistics on
\* its own
CurveDates == {20230102, 20230103, 20240102}

\* equity curves of any length from 0 with their dates, which never go back
\* but may stand still
CurveInputs ==
    UNION {{[equityCurve |-> [i \in 1..n |-> EquityValue(Num(values[i]), 0)],
             dates |-> dates] :
               values \in [1..n -> 1..MaxCurveValue],
               dates \in {ds \in [1..n -> CurveDates] :
                              \A i \in 1..(n - 1) : ds[i] <= ds[i + 1]}} :
           n \in 0..MaxCurveLen}

CallStrategyStatistics ==
    /\ call = Idle
    /\ \E input \in CurveInputs, riskFreeRate \in RiskFreeRateOptions :
          /\ call' = [fn |-> "calculateStrategyStatistics",
                      equityCurve |-> input.equityCurve, dates |-> input.dates,
                      riskFreeRate |-> riskFreeRate]
          /\ ret' = calculateStrategyStatistics(input.equityCurve, input.dates,
                                                riskFreeRate)

\* the two functions that compute CAGR, volatility and Sharpe ratio
\* the dates of the series Home holds: the first and the last trading day of
\* a December and of the January after it
HomeDates == {20221201, 20221230, 20230101, 20230131}

\* the series Home holds after a load: none, or those of one or two tickers,
\* none of them empty (fetchStooqData throws on an empty series); the closes
\* of the second ticker are all 1
HomeInputs ==
    {<<>>}
        \cup {<<TickerData("A", a)>> :
                 a \in SeriesOver(HomeDates, MaxPairLen, MaxPairClose) \ {<<>>}}
        \cup {<<TickerData("A", a), TickerData("B", b)>> :
                 a \in SeriesOver(HomeDates, MaxPairLen, MaxPairClose) \ {<<>>},
                 b \in SeriesOver(HomeDates, MaxPairLen, 1) \ {<<>>}}

\* the date ranges Home can hold for them: the one handleSubmit derives with
\* getDateRange, or one picked in the date filter, which passes on a start
\* and an end that are dates with start <= end
HomeRanges(rawTickersData) ==
    {[start |-> getDateRange(rawTickersData).minDate,
      end |-> getDateRange(rawTickersData).maxDate]}
        \cup (IF Len(rawTickersData) = 0 THEN {}
              ELSE {[start |-> r[1], end |-> r[2]] :
                       r \in {q \in HomeDates \X HomeDates : q[1] <= q[2]}})

\* one rendering of Home: the memoised values are recomputed from the state
HomeRecompute ==
    /\ call = Idle
    /\ \E rawTickersData \in HomeInputs, west \in BOOLEAN :
          \E dateRange \in HomeRanges(rawTickersData), focusedTickerIndex \in 0..1 :
             LET filteredTickersData == FilteredTickersData(rawTickersData, dateRange)
             IN  /\ focusedTickerIndex < Len(rawTickersData) \/ focusedTickerIndex = 0
                 /\ call' = [fn |-> "Home", rawTickersData |-> rawTickersData,
                             dateRange |-> dateRange,
                             focusedTickerIndex |-> focusedTickerIndex,
                             west |-> west]
                 /\ ret' = [filteredTickersData |-> filteredTickersData,
                            statistics |-> HomeStatistics(filteredTickersData),
                            chartData |-> HomeChartData(filteredTickersData),
                            returnsTableData |->
                                HomeReturnsTableData(filteredTickersData,
                                                     focusedTickerIndex, west)]

NextHome == HomeRecompute

SpecHome == Init /\ [][NextHome]_vars

NextStats ==
    \/ CallStatistics
    \/ CallStrategyStatistics

SpecStats == Init /\ [][NextStats]_vars

\* the two engines that answer insufficient data with "no result"
NextEngines ==
    \/ CallTrendFollowing
    \/ CallRollingReturns

SpecEngines == Init /\ [][NextEngines]_vars

\* the backtest alone, for the claims about the transitions it records
NextSignals == CallTrendFollowing

SpecSignals == Init /\ [][NextSignals]_vars

Next ==
    \/ CallDrawdownSeries
    \/ CallFindExtremes
    \/ CallFilter
    \/ CallStatistics

Spec == Init /\ [][Next]_vars

(***************************************************************************)
(* Claims about the one-series functions (specification Spec)              *)
(***************************************************************************)
\* the largest close among the first i points
RunningMax(data, i) ==
    CHOOSE m \in {data[j].close : j \in 1..i} :
        \A j \in 1..i : data[j].close <= m

\* C1: for every non-empty series with positive closes,
\* calculateDrawdownSeries emits exactly one drawdown value per input point
\* (on the point's date), every value is <= 0, and a value is 0 exactly at
\* the indices where close[i] equals the running maximum of close[1..i].
C1_DrawdownSeriesShape ==
    (call.fn = "calculateDrawdownSeries" /\ Len(call.data) > 0) =>
        /\ Len(ret.data) = Len(call.data)
        /\ \A i \in 1..Len(call.data) :
              /\ ret.data[i].date = call.data[i].date
              /\ RLe(ret.data[i].drawdown, Zero)
              /\ (ret.data[i].drawdown = Zero) <=>
                     (call.data[i].close = RunningMax(call.data, i))

\* a drawdown series that falls below the peak and later makes a new peak
C1_Witness ==
    /\ call.fn = "calculateDrawdownSeries"
    /\ \E i, j \in 1..Len(ret.data) :
          /\ i < j
          /\ RLt(ret.data[i].drawdown, Zero)
          /\ ret.data[j].drawdown = Zero
          /\ call.data[j].close > call.data[1].close

\* the indices of the points of data dated within [startDate, endDate]
KeptIndices(data, startDate, endDate) ==
    {i \in 1..Len(data) : startDate <= data[i].date /\ data[i].date <= endDate}

\* C5: filterDataByDateRange is idempotent: filtering its result again by
\* the same bounds yields the identical sequence, and that sequence is
\* exactly the order-preserving subsequence of the points with
\* startDate <= date <= endDate.
C5_FilterIdempotent ==
    (call.fn = "filterDataByDateRange") =>
        LET kept == SetToSeq(KeptIndices(call.data, call.startDate, call.endDate))
        IN  /\ filterDataByDateRange(ret.data, call.startDate, call.endDate) = ret.data
            /\ ret.data = [k \in 1..Len(kept) |-> call.data[kept[k]]]

\* a filter that drops a point before the range and a point after it
C5_Witness ==
    /\ call.fn = "filterDataByDateRange"
    /\ Len(call.data) = 3
    /\ ret.data = <<call.data[2]>>
    /\ call.data[2].date = call.endDate

\* the first index of data whose close is c
FirstIndexOf(data, c) ==
    CHOOSE i \in 1..Len(data) :
        data[i].close = c /\ \A j \in 1..(i - 1) : data[j].close # c

MaxCloseOf(data) == RunningMax(data, Len(data))

MinCloseOf(data) ==
    CHOOSE m \in {data[j].close : j \in 1..Len(data)} :
        \A j \in 1..Len(data) : m <= data[j].close

\* C8: findExtremes returns the earliest point whose close equals the series
\* maximum as highPoint and the earliest point whose close equals the
\* series minimum as lowPoint, and calculateStatistics reports the same
\* maxPrice/maxPriceDate and minPrice/minPriceDate on the same series.
C8_ExtremesFirstOccurrence ==
    /\ (call.fn = "findExtremes" /\ Len(call.data) > 0) =>
          LET hi == FirstIndexOf(call.data, MaxCloseOf(call.data))
              lo == FirstIndexOf(call.data, MinCloseOf(call.data))
              stats == calculateStatistics("A", call.data)
          IN  /\ ret.highPoint = [date |-> call.data[hi].date,
                                  price |-> call.data[hi].close]
              /\ ret.lowPoint = [date |-> call.data[lo].date,
                                 price |-> call.data[lo].close]
              /\ Len(call.data) >= 2 =>
                    /\ stats.maxPrice = ret.highPoint.price
                    /\ stats.maxPriceDate = ret.highPoint.date
                    /\ stats.minPrice = ret.lowPoint.price
                    /\ stats.minPriceDate = ret.lowPoint.date
    /\ (call.fn = "calculateStatistics" /\ Len(call.data) >= 2) =>
          LET hi == FirstIndexOf(call.data, MaxCloseOf(call.data))
              lo == FirstIndexOf(call.data, MinCloseOf(call.data))
          IN  /\ ret.maxPrice = call.data[hi].close
              /\ ret.maxPriceDate = call.data[hi].date
              /\ ret.minPrice = call.data[lo].close
              /\ ret.minPriceDate = call.data[lo].date

\* findExtremes on a series whose maximum is reached twice, the second time
\* after a lower close
C8_Witness ==
    /\ call.fn = "findExtremes"
    /\ Len(call.data) = 3
    /\ call.data[1].close = call.data[3].close
    /\ call.data[2].close < call.data[1].close
    /\ ret.highPoint.date = call.data[1].date
    /\ ret.lowPoint.date = call.data[2].date

\* C10: calculateStatistics called with fewer than 2 points fails with the
\* insufficient-data error and returns no statistics record; with 2 or more
\* points it always returns a record.
C10_InsufficientData ==
    (call.fn = "calculateStatistics") =>
        /\ Len(call.data) < 2 => ret = InsufficientData
        /\ Len(call.data) >= 2 =>
              /\ ~IsError(ret)
              /\ ret.totalDays = Len(call.data)
              /\ ret.startDate = call.data[1].date
              /\ ret.endDate = call.data[Len(call.data)].date

\* calculateStatistics called with exactly one point
C10_Witness ==
    /\ call.fn = "calculateStatistics"
    /\ Len(call.data) = 1
    /\ IsError(ret)

\* (endPrice / startPrice - 1) * 100
ReturnOver(startPrice, endPrice) ==
    RMul(RSub(Rat(endPrice, startPrice), One), Hundred)

\* the last index of the set S of indices
LastOf(S) == CHOOSE i \in S : \A j \in S : j <= i

\* the period return ret reports: null when no point of the call qualifies
\* as the baseline, else the return from the last qualifying point to the
\* last point of the series
IsReturnSince(value, qualifying) ==
    IF qualifying = {} THEN value = Null
    ELSE value = ReturnOver(call.data[LastOf(qualifying)].close,
                            call.data[Len(call.data)].close)

\* C16: in calculateStatistics, ytdReturn is null exactly when the series
\* has no point in December of the year before the end date's year, and
\* oneYearReturn / threeYearReturn are null exactly when the series has no
\* point dated on or before the end date shifted back 1 / 3 calendar years;
\* when non-null each is computed from the last close of that December,
\* respectively the latest close on or before the shifted date; an
\* unresolvable baseline never yields 0 and never raises.
C16_PeriodReturnsNullWithoutBaseline ==
    (call.fn = "calculateStatistics" /\ Len(call.data) >= 2) =>
        LET data == call.data
            endDate == data[Len(data)].date
            december == {i \in 1..Len(data) :
                            /\ YearOf(data[i].date) = YearOf(endDate) - 1
                            /\ MonthOf(data[i].date) = 12}
            until1 == {i \in 1..Len(data) : data[i].date <= endDate - 10000}
            until3 == {i \in 1..Len(data) : data[i].date <= endDate - 30000}
        IN  /\ ~IsError(ret)
            /\ IsReturnSince(ret.ytdReturn, december)
            /\ IsReturnSince(ret.oneYearReturn, until1)
            /\ IsReturnSince(ret.threeYearReturn, until3)

\* a series ending on 29 February 2024 that reaches back three years but
\* has no point in December 2023: a three-year and a one-year return and no
\* year-to-date return
C16_Witness ==
    /\ call.fn = "calculateStatistics"
    /\ Len(call.data) = 3
    /\ call.data[3].date = 20240229
    /\ call.data[1].close # call.data[2].close
    /\ ret.ytdReturn = Null
    /\ ret.oneYearReturn # Null
    /\ ret.threeYearReturn # Null
    /\ ret.oneYearReturn # ret.threeYearReturn

\* the running peaks of the input: the first point and every point whose
\* close strictly exceeds every earlier close
PeakIndices ==
    {i \in 1..Len(call.data) :
        \A j \in 1..(i - 1) : call.data[j].close < call.data[i].close}

\* the point that closes the episode of the peak p: the next running peak,
\* or the last point of the series for the episode still open
EpisodeEnd(p) ==
    IF \E q \in PeakIndices : q > p
    THEN CHOOSE q \in PeakIndices : q > p /\ \A h \in PeakIndices : h > p => q <= h
    ELSE Len(call.data)

EpisodeDays(p) == EpochDay(call.data[EpisodeEnd(p)].date) - EpochDay(call.data[p].date)

\* C25: calculateStatistics reports longestDrawdownDays as the maximum
\* calendar-day length over all drawdown episodes: an episode starts at a
\* running-peak date (the first point at first), is closed by the next point
\* whose close strictly exceeds that peak, and the episode still open from
\* the last peak to the last date counts as well; a close that only equals
\* the peak closes nothing.
C25_LongestDrawdownDays ==
    (call.fn = "calculateStatistics" /\ ~IsError(ret)) =>
        /\ \A p \in PeakIndices : EpisodeDays(p) <= ret.longestDrawdownDays
        /\ \E p \in PeakIndices : EpisodeDays(p) = ret.longestDrawdownDays

\* a close equal to the peak in the middle of the longest episode, which
\* runs from the first point to the last one
C25_Witness ==
    /\ call.fn = "calculateStatistics"
    /\ ~IsError(ret)
    /\ Len(call.data) = 3
    /\ call.data[2].close = call.data[1].close
    /\ call.data[3].close < call.data[1].close
    /\ ret.longestDrawdownDays
           = EpochDay(call.data[3].date) - EpochDay(call.data[1].date)

\* the three drawdown figures of a result agree with those of another
SameDrawdownFigures(a, b) ==
    /\ a.maxDrawdown = b.maxDrawdown
    /\ a.maxDrawdownDate = b.maxDrawdownDate
    /\ a.currentDrawdown = b.currentDrawdown

\* the first point at which the emitted drawdown is the lowest
FirstDeepest(drawdownData) ==
    CHOOSE k \in 1..Len(drawdownData) :
        /\ \A j \in 1..Len(drawdownData) :
              RLe(drawdownData[k].drawdown, drawdownData[j].drawdown)
        /\ \A j \in 1..(k - 1) :
              RLt(drawdownData[k].drawdown, drawdownData[j].drawdown)

\* C28: on every series of 2 points or more the drawdown scan of the summary
\* (calculateDrawdowns in calculateStatistics) and calculateDrawdownSeries
\* agree on maxDrawdown, on maxDrawdownDate (the first occurrence on ties)
\* and on currentDrawdown; maxDrawdown is the negated minimum of the emitted
\* drawdown values and currentDrawdown <= maxDrawdown.
C28_DrawdownScansAgree ==
    /\ (call.fn = "calculateStatistics" /\ ~IsError(ret)) =>
           /\ SameDrawdownFigures(ret, calculateDrawdownSeries(call.data))
           /\ RLe(ret.currentDrawdown, ret.maxDrawdown)
    /\ (call.fn = "calculateDrawdownSeries" /\ Len(call.data) >= 2) =>
           /\ SameDrawdownFigures(ret, calculateDrawdowns(call.data))
           /\ ret.maxDrawdown = RNeg(ret.data[FirstDeepest(ret.data)].drawdown)
           /\ ret.maxDrawdownDate = ret.data[FirstDeepest(ret.data)].date
           /\ RLe(ret.currentDrawdown, ret.maxDrawdown)

\* the summary of a series that falls and stays at its low: the maximum is
\* dated at the first of the two lows
C28_Witness ==
    /\ call.fn = "calculateStatistics"
    /\ ~IsError(ret)
    /\ Len(call.data) = 3
    /\ call.data[2].close < call.data[1].close
    /\ call.data[3].close = call.data[2].close
    /\ ret.maxDrawdownDate = call.data[2].date
    /\ ret.maxDrawdown = calculateDrawdownSeries(call.data).maxDrawdown
    /\ RGt(ret.maxDrawdown, Zero)

(***************************************************************************)
(* Claims about the functions of several series (specification SpecMulti)  *)
(***************************************************************************)
DatesOf(data) == {data[i].date : i \in 1..Len(data)}

MinDate(D) == CHOOSE d \in D : \A e \in D : d <= e
MaxDate(D) == CHOOSE d \in D : \A e \in D : e <= d

\* a call of normalizeDataForChart with two non-empty series
IsPairCall ==
    /\ call.fn = "normalizeDataForChart"
    /\ Len(call.tickersData) = 2
    /\ \A i \in 1..2 : Len(call.tickersData[i].data) > 0

\* the row r gives both tickers of the call the value exactly 100
BothAtHundred(r) ==
    \A i \in 1..2 :
        /\ call.tickersData[i].ticker \in DOMAIN r.values
        /\ r.values[call.tickersData[i].ticker] = Hundred

\* C2 as stated: for every pair of valid (non-empty, date-ascending)
\* series, the output of normalizeDataForChart contains a row for the common
\* start date in which both tickers have the value exactly 100.
C2_EveryPairHasRowAtHundred ==
    IsPairCall =>
        /\ ~IsError(ret)
        /\ \E k \in 1..Len(ret.rows) : BothAtHundred(ret.rows[k])

\* C2 amended: for every pair of valid series that share at least one date,
\* the first row of the output of normalizeDataForChart is the row of the
\* earliest shared date, and in it both tickers have the value exactly 100.
C2_SharedDateRowAtHundred ==
    LET shared == DatesOf(call.tickersData[1].data)
                      \cap DatesOf(call.tickersData[2].data)
    IN  (IsPairCall /\ shared # {}) =>
            /\ ~IsError(ret)
            /\ Len(ret.rows) >= 1
            /\ ret.rows[1].date = MinDate(shared)
            /\ BothAtHundred(ret.rows[1])

\* two series whose first shared date is the first date of neither, with
\* closes on that date that differ from their first closes
C2_Witness ==
    /\ IsPairCall
    /\ ~IsError(ret)
    /\ Len(ret.rows) >= 1
    /\ BothAtHundred(ret.rows[1])
    /\ \A i \in 1..2 :
          /\ call.tickersData[i].data[1].date < ret.rows[1].date
          /\ call.tickersData[i].data[1].close # call.tickersData[i].data[2].close
          /\ call.tickersData[i].data[2].date = ret.rows[1].date

\* C6: for a single input series, normalizeDataForChart outputs one row per
\* point of the series, in order, whose value for the ticker is the raw
\* close price unchanged (no rebasing to 100).  A series without points,
\* as a date filter can leave it, has no row.
C6_SingleSeriesRawPrices ==
    (/\ call.fn = "normalizeDataForChart"
     /\ Len(call.tickersData) = 1) =>
        LET td == call.tickersData[1]
        IN  /\ ~IsError(ret)
            /\ ret.rows = [i \in 1..Len(td.data) |->
                              [date |-> td.data[i].date,
                               values |-> [tk \in {td.ticker} |->
                                              Num(td.data[i].close)]]]

\* a single series whose closes differ, so that a rebased value would not
\* be the close
C6_Witness ==
    /\ call.fn = "normalizeDataForChart"
    /\ Len(call.tickersData) = 1
    /\ Len(call.tickersData[1].data) = 2
    /\ call.tickersData[1].data[1].close = 2
    /\ call.tickersData[1].data[2].close = 1
    /\ ~IsError(ret)
    /\ Len(ret.rows) = 2

\* C9: getDateRange returns minDate = the maximum of the first dates and
\* maxDate = the minimum of the last dates over all input series, and
\* returns both as empty strings for an empty input list.
C9_DateRangeIntersection ==
    (call.fn = "getDateRange") =>
        LET tds == call.tickersData
        IN  IF Len(tds) = 0
            THEN ret = [minDate |-> EmptyString, maxDate |-> EmptyString]
            ELSE /\ ret.minDate =
                        MaxDate({tds[i].data[1].date : i \in 1..Len(tds)})
                 /\ ret.maxDate =
                        MinDate({tds[i].data[Len(tds[i].data)].date :
                                     i \in 1..Len(tds)})

\* three series: the second starts last, the third ends first
C9_Witness ==
    /\ call.fn = "getDateRange"
    /\ Len(call.tickersData) = 3
    /\ ret.minDate = call.tickersData[2].data[1].date
    /\ ret.minDate > call.tickersData[1].data[1].date
    /\ ret.minDate > call.tickersData[3].data[1].date
    /\ ret.maxDate = call.tickersData[3].data[Len(call.tickersData[3].data)].date
    /\ ret.maxDate < call.tickersData[1].data[Len(call.tickersData[1].data)].date
    /\ ret.maxDate < call.tickersData[2].data[Len(call.tickersData[2].data)].date

\* the tickers of the call that have a point on the date
TickersWithPoint(tickersData, date) ==
    {tickersData[i].ticker :
        i \in {n \in 1..Len(tickersData) : date \in DatesOf(tickersData[n].data)}}

\* the dates on which every series of the call has a point
CommonDates(tickersData) ==
    {d \in AllDates(tickersData) :
        \A i \in 1..Len(tickersData) : d \in DatesOf(tickersData[i].data)}

\* C15: normalizeDataForChart starts its output at the earliest date on
\* which every input series has a data point; when no such date exists it
\* starts at the first date of the first series; the output rows are exactly
\* the dates of the sorted union of all series dates from that start date
\* onward, in ascending order, each row holding a value only for the tickers
\* that have a point on that date.  (Stated for every call in which the
\* start date exists: a common date, or a first point of the first series.)
C15_RowsFromCommonStart ==
    LET tds == call.tickersData
        common == CommonDates(tds)
    IN  (/\ call.fn = "normalizeDataForChart"
         /\ Len(tds) >= 1
         /\ common # {} \/ Len(tds[1].data) > 0) =>
            LET start == IF common # {} THEN MinDate(common)
                         ELSE tds[1].data[1].date
                expected == SetToSeq({d \in AllDates(tds) : d >= start})
            IN  /\ ~IsError(ret)
                /\ Len(ret.rows) = Len(expected)
                /\ \A k \in 1..Len(expected) :
                       /\ ret.rows[k].date = expected[k]
                       /\ DOMAIN ret.rows[k].values
                              = TickersWithPoint(tds, expected[k])

(***************************************************************************)
(* Claims about calculateRollingReturns (specification SpecRolling)        *)
(***************************************************************************)
\* C7: calculateRollingReturns with windowYears = 1 reports for every
\* emitted point rollingCagr = (endPrice/startPrice - 1) * 100 (the simple
\* return, not annualized by the elapsed-year fraction), while for
\* windowYears >= 2 it reports ((endPrice/startPrice)^(1/years) - 1) * 100
\* with years the elapsed fraction between the resolved start and end dates.
C7_OneYearSimpleReturn ==
    (call.fn = "calculateRollingReturns") =>
        \A k \in 1..Len(ret.points) :
            LET p == ret.points[k]
                simple == RMul(RSub(Rat(p.endPrice, p.startPrice), One), Hundred)
                years == Rat(4 * (EpochDay(p.date) - EpochDay(p.startDate)),
                             DaysPerYearTimes4)
            IN  /\ call.rollingYears = 1 => p.rollingCagr = Exact(simple)
                /\ call.rollingYears >= 2 =>
                       p.rollingCagr = CagrTerm(Rat(p.endPrice, p.startPrice), years)

\* a one-year window whose resolved start lies more than a year before the
\* end, with a price change: the simple return and the annualized one differ
C7_Witness ==
    /\ call.fn = "calculateRollingReturns"
    /\ call.rollingYears = 1
    /\ \E k \in 1..Len(ret.points) :
          /\ ret.points[k].endPrice # ret.points[k].startPrice
          /\ EpochDay(ret.points[k].date) - EpochDay(ret.points[k].startDate) > 366
          /\ ret.points[k].rollingCagr.k = "exact"

\* the points of the input dated on or before the date of point i minus
\* the window in calendar years
PointsInReach(i) ==
    {j \in 1..Len(call.data) :
        call.data[j].date
            <= SetFullYear(call.data[i].date,
                           YearOf(call.data[i].date) - call.rollingYears)}

\* the latest of them
LatestInReach(i) == CHOOSE j \in PointsInReach(i) : \A h \in PointsInReach(i) : h <= j

\* an independent search emits a point for index i
EmittedBySearch(i) ==
    /\ PointsInReach(i) # {}
    /\ call.data[LatestInReach(i)].close > 0
    /\ RGt(YearsBetween(call.data[LatestInReach(i)].date, call.data[i].date), Zero)

\* the start cursor after the iterations for the indices 1..i (an iteration
\* reads no point after its own index)
CursorAfter(i) ==
    RollingLoop(SubSeq(call.data, 1, i), call.rollingYears, call.west, 1,
                [startIdx |-> 1, result |-> <<>>]).startIdx

\* C24: calculateRollingReturns with its never-rewinding start cursor gives
\* the result of an independent search per index: a point is emitted for
\* index i exactly when some series date is <= date[i] minus windowYears
\* calendar years (and the elapsed years and the start price are positive),
\* its startDate and startPrice are those of the latest such point, the
\* cursor never decreases, and the emitted dates are a subsequence of the
\* input dates in ascending order.
C24_CursorIsIndependentSearch ==
    (call.fn = "calculateRollingReturns") =>
        /\ \A i \in 1..Len(call.data) :
              EmittedBySearch(i)
                  <=> \E k \in 1..Len(ret.points) :
                          ret.points[k].date = call.data[i].date
        /\ \A k \in 1..Len(ret.points) :
              \E i \in 1..Len(call.data) :
                  /\ ret.points[k].date = call.data[i].date
                  /\ PointsInReach(i) # {}
                  /\ ret.points[k].startDate = call.data[LatestInReach(i)].date
                  /\ ret.points[k].startPrice = call.data[LatestInReach(i)].close
        /\ \A i \in 1..(Len(call.data) - 1) : CursorAfter(i) <= CursorAfter(i + 1)
        /\ \A k \in 1..(Len(ret.points) - 1) :
              ret.points[k].date < ret.points[k + 1].date

\* three points a year apart each: the cursor moves twice and two points are
\* emitted, each starting at the point before it
C24_Witness ==
    /\ call.fn = "calculateRollingReturns"
    /\ call.rollingYears = 1
    /\ Len(call.data) = 3
    /\ Len(ret.points) = 2
    /\ ret.points[1].startDate = call.data[1].date
    /\ ret.points[2].startDate = call.data[2].date
    /\ CursorAfter(3) = 2

(***************************************************************************)
(* Claims about the trend-following backtest (SpecTrend)                   *)
(***************************************************************************)
IsBacktest == call.fn = "calculateTrendFollowingAnalysis"

MonthsOf(data) == {YearMonth(data[i].date) : i \in 1..Len(data)}

\* trendFollowingStats.finalAmount of the same call with another commission
FinalAmountAt(commission) ==
    calculateTrendFollowingAnalysis(call.data, call.riskFreeRate, commission)
        .trendFollowingStats.finalAmount

\* C3: for identical price data and risk-free rate and any two commission
\* rates c2 > c1 >= 0, calculateTrendFollowingAnalysis yields
\* trendFollowingStats.finalAmount at c2 <= finalAmount at c1, the signal
\* transitions being the same in both runs.  c1 is the commission of the
\* call, c2 every larger rate; both final amounts carry the same number of
\* cash days, so they compare as their rational factors do.
C3_CommissionNeverIncreasesFinalAmount ==
    (IsBacktest /\ ret # Null) =>
        \A c2 \in CommissionOptions :
            RLt(call.commission, c2) =>
                LET r2 == calculateTrendFollowingAnalysis(call.data,
                              call.riskFreeRate, c2)
                    f1 == ret.trendFollowingStats.finalAmount
                IN  /\ r2 # Null
                    /\ r2.signalDates = ret.signalDates
                    /\ r2.trendFollowingStats.finalAmount.cashDays = f1.cashDays
                    /\ RLe(r2.trendFollowingStats.finalAmount.q, f1.q)

\* a backtest at the default commission with two signal transitions, whose
\* final amount is strictly larger than at the largest commission
C3_Witness ==
    /\ IsBacktest
    /\ ret # Null
    /\ call.commission = Rat(1, 500)
    /\ Len(ret.signalDates) >= 2
    /\ RLt(FinalAmountAt(Rat(1, 200)).q, ret.trendFollowingStats.finalAmount.q)

\* the close of every day is above the close of the day before
StrictlyIncreasing(data) ==
    \A i \in 1..(Len(data) - 1) : data[i].close < data[i + 1].close

\* enough days and enough calendar months for a backtest
LongEnough(data) ==
    /\ Len(data) >= MIN_DAILY_POINTS
    /\ Cardinality({YearMonth(data[i].date) : i \in 1..Len(data)})
           >= MIN_MONTHLY_POINTS

MonthlySignalsOfCall ==
    calculateMonthlySignals(extractMonthlyEndPrices(call.data))

\* the monthly point of the latest month before the month of the date
\* (0 if there is none)
LastCompletedMonth(monthlySignals, date) ==
    LET prior == {j \in 1..Len(monthlySignals) :
                     YearMonth(monthlySignals[j].date) < YearMonth(date)}
    IN  IF prior = {} THEN 0 ELSE CHOOSE j \in prior : \A l \in prior : l <= j

\* the row carries the signal generated at the month-end of the most
\* recently completed month before the month of its day
CarriesLaggedSignal(monthlySignals, row) ==
    LET j == LastCompletedMonth(monthlySignals, row.date)
    IN  /\ j > 0
        /\ monthlySignals[j].signal # NoSignal
        /\ row.signal = monthlySignals[j].signal

\* C12 as stated: in the daily equity simulation, the active signal recorded
\* for every simulated day is the signal generated at the month-end of the
\* most recently completed calendar month before that day's month; the
\* signal of the day's own in-progress month is never the active one.
C12_EveryDayCarriesLaggedSignal ==
    (IsBacktest /\ ret # Null) =>
        LET monthlySignals == MonthlySignalsOfCall
        IN  \A k \in 1..Len(ret.chartData) :
                CarriesLaggedSignal(monthlySignals, ret.chartData[k])

\* C12 amended: the active signal recorded for every simulated day after the
\* first is the signal generated at the month-end of the most recently
\* completed calendar month before that day's month; the first simulated
\* day is the month-end of the first month that has a signal, and it is
\* recorded with that signal, no month before it having one.
C12_LaterDaysCarryLaggedSignal ==
    (IsBacktest /\ ret # Null) =>
        LET monthlySignals == MonthlySignalsOfCall
            first == ret.chartData[1]
        IN  /\ \A k \in 2..Len(ret.chartData) :
                   CarriesLaggedSignal(monthlySignals, ret.chartData[k])
            /\ \E j \in 1..Len(monthlySignals) :
                   /\ monthlySignals[j].date = first.date
                   /\ monthlySignals[j].signal = first.signal
                   /\ \A l \in 1..(j - 1) : monthlySignals[l].signal = NoSignal

\* a simulated day after the first whose own month ends with a signal that
\* differs from the one recorded for the day
C12_Witness ==
    /\ IsBacktest
    /\ ret # Null
    /\ \E k \in 2..Len(ret.chartData) :
          \E j \in 1..Len(MonthlySignalsOfCall) :
              /\ YearMonth(MonthlySignalsOfCall[j].date)
                     = YearMonth(ret.chartData[k].date)
              /\ MonthlySignalsOfCall[j].signal # NoSignal
              /\ MonthlySignalsOfCall[j].signal # ret.chartData[k].signal
              /\ CarriesLaggedSignal(MonthlySignalsOfCall, ret.chartData[k])

(***************************************************************************)
(* Claims about the recorded transitions of the backtest (SpecSignals)     *)
(***************************************************************************)
\* x to the power n, n a natural number
RECURSIVE RPow(_, _)
RPow(x, n) == IF n = 0 THEN One ELSE RMul(x, RPow(x, n - 1))

\* the simulated days that start a new calendar month with an active signal
\* different from the one of the day before
TransitionDays(chartData) ==
    {k \in 2..Len(chartData) :
        /\ YearMonth(chartData[k].date) # YearMonth(chartData[k - 1].date)
        /\ chartData[k].signal # chartData[k - 1].signal}

\* C13: in the daily equity simulation, trendFollowingValue is multiplied by
\* (1 - commission) exactly once on each day that starts a new calendar
\* month with a newly active signal different from the previously active
\* one, and on no other day; each such day appends exactly one {date,
\* signal} event to signalDates, so the number of commission applications
\* equals the length of signalDates.  The applications are read off the
\* curve: on every day it is the curve of the same backtest without
\* commission times (1 - commission) to the number of such days so far.
C13_CommissionOncePerTransition ==
    (IsBacktest /\ ret # Null) =>
        LET free == calculateTrendFollowingAnalysis(call.data,
                        call.riskFreeRate, Zero).chartData
            days == TransitionDays(ret.chartData)
            order == SetToSeq(days)
        IN  /\ Len(free) = Len(ret.chartData)
            /\ \A k \in 1..Len(ret.chartData) :
                   LET paid == Cardinality({d \in days : d <= k})
                   IN  ret.chartData[k].trendFollowing =
                           [free[k].trendFollowing EXCEPT
                               !.q = RMul(@, RPow(RSub(One, call.commission), paid))]
            /\ ret.signalDates =
                   [n \in 1..Len(order) |->
                       [date |-> ret.chartData[order[n]].date,
                        signal |-> ret.chartData[order[n]].signal]]

\* a backtest with a commission, two transitions and month starts on which
\* the signal stays as it was
C13_Witness ==
    /\ IsBacktest
    /\ ret # Null
    /\ call.commission # Zero
    /\ Len(ret.signalDates) = 2
    /\ Cardinality(TransitionDays(ret.chartData)) = 2
    /\ Cardinality(MonthsOf(call.data)) = 13
    /\ ret.signalDates[1].signal # ret.signalDates[2].signal

\* the date is the first trading day of its calendar month in the input and
\* a simulated day
IsMonthStartInRange(date) ==
    /\ \E i \in 1..Len(call.data) : call.data[i].date = date
    /\ \A i \in 1..Len(call.data) :
          YearMonth(call.data[i].date) = YearMonth(date) => call.data[i].date >= date
    /\ ret.chartData[1].date <= date
    /\ date <= ret.chartData[Len(ret.chartData)].date

\* C29: in every backtest result the recorded signalDates have strictly
\* ascending dates, each the first trading day of a calendar month within
\* the simulated range; consecutive entries alternate between BUY and SELL,
\* the first entry differs from the initial active signal, and currentSignal
\* is the signal of the last entry when there is one.
C29_SignalDatesAlternate ==
    (IsBacktest /\ ret # Null) =>
        LET s == ret.signalDates
        IN  /\ \A n \in 1..(Len(s) - 1) :
                   /\ s[n].date < s[n + 1].date
                   /\ s[n].signal # s[n + 1].signal
            /\ \A n \in 1..Len(s) :
                   /\ s[n].signal \in {"BUY", "SELL"}
                   /\ IsMonthStartInRange(s[n].date)
            /\ Len(s) > 0 =>
                   /\ s[1].signal # ret.chartData[1].signal
                   /\ ret.currentSignal = s[Len(s)].signal

\* a backtest that starts out of the market, buys and sells again
C29_Witness ==
    /\ IsBacktest
    /\ ret # Null
    /\ Len(ret.signalDates) >= 2
    /\ ret.chartData[1].signal = "SELL"
    /\ ret.signalDates[1].signal = "BUY"
    /\ ret.signalDates[2].signal = "SELL"
    /\ ret.currentSignal = ret.signalDates[Len(ret.signalDates)].signal

(***************************************************************************)
(* Claims about the backtest and the rolling returns (SpecEngines)         *)
(***************************************************************************)
\* the index in the input series of the first simulated day
FirstSimulated ==
    CHOOSE i \in 1..Len(call.data) : call.data[i].date = ret.chartData[1].date

\* the point of the input series that row k is about: the simulated days are
\* the days of the input from the first simulated day on
PointOfRow(k) == call.data[FirstSimulated + k - 1]

\* whether a signal transition is applied on the day of row k
TransitionApplied(k) ==
    \E n \in 1..Len(ret.signalDates) :
        ret.signalDates[n].date = ret.chartData[k].date

\* the trend-following value of row k derived from that of row k - 1
NextTrendFollowing(k) ==
    LET rows == ret.chartData
        prev == rows[k - 1].trendFollowing
        paid == IF TransitionApplied(k)
                THEN RMul(prev.q, RSub(One, call.commission))
                ELSE prev.q
        close == PointOfRow(k).close
        prevClose == PointOfRow(k - 1).close
    IN  IF rows[k].signal = "BUY"
        THEN [q |-> RMul(paid, RAdd(One, Rat(close - prevClose, prevClose))),
              cashDays |-> prev.cashDays]
        ELSE [q |-> paid,
              cashDays |-> IF call.riskFreeRate = Zero THEN prev.cashDays
                           ELSE prev.cashDays + 1]

\* C20: in the daily equity simulation both curves are 1 on the first
\* simulated day; buyHold on every simulated day is the close of the day over
\* the close of the first simulated day; on every later day the
\* trend-following value is the value of the day before, times
\* (1 - commission) if a transition is applied that day, times
\* (1 + (close[i] - close[i-1]) / close[i-1]) if the signal active that day
\* is BUY and times (1 + dailyCashReturn) if it is SELL (a value is q times
\* (1 + dailyCashReturn) to the power cashDays).
C20_EquityRecurrence ==
    (IsBacktest /\ ret # Null) =>
        LET rows == ret.chartData
        IN  /\ rows[1].buyHold = One
            /\ rows[1].trendFollowing = [q |-> One, cashDays |-> 0]
            /\ \A k \in 1..Len(rows) :
                   /\ rows[k].date = PointOfRow(k).date
                   /\ rows[k].buyHold = Rat(PointOfRow(k).close, PointOfRow(1).close)
            /\ \A k \in 2..Len(rows) :
                   rows[k].trendFollowing = NextTrendFollowing(k)

\* a backtest with a commission and a cash rate that has a transition to BUY
\* on a day whose close differs from the close of the day before, and days
\* out of the market
C20_Witness ==
    /\ IsBacktest
    /\ ret # Null
    /\ call.commission # Zero
    /\ call.riskFreeRate # Zero
    /\ \E k \in 2..Len(ret.chartData) :
          /\ TransitionApplied(k)
          /\ ret.chartData[k].signal = "BUY"
          /\ PointOfRow(k).close # PointOfRow(k - 1).close
    /\ \E k \in 2..Len(ret.chartData) : ret.chartData[k].signal = "SELL"

\* some point of the series has a point a whole window or more before it
HasHistory(data, rollingYears, west) ==
    \E i \in 1..Len(data) :
        data[1].date <= SubtractYears(data[i].date, rollingYears, west)

SumOfTen(ms, j) ==
    ms[j - 9].price + ms[j - 8].price + ms[j - 7].price + ms[j - 6].price
        + ms[j - 5].price + ms[j - 4].price + ms[j - 3].price
        + ms[j - 2].price + ms[j - 1].price + ms[j].price

\* C14: monthly sampling keeps exactly one point per calendar month present
\* in the data (the last trading day's date and close, months ascending);
\* sma10 and signal are absent exactly for monthly indices 0..8, and for
\* every index >= 9 sma10 is the mean of the 10 monthly closes ending at
\* that index and signal is BUY if the monthly close is strictly greater
\* than sma10, otherwise SELL (equality gives SELL).
C14_MonthlySamplingAndSignals ==
    (call.fn = "calculateMonthlySignals") =>
        LET ms == ret.monthlySignals
            data == call.data
        IN  /\ Len(ms) = Cardinality(MonthsOf(data))
            /\ \A j \in 1..(Len(ms) - 1) :
                   YearMonth(ms[j].date) < YearMonth(ms[j + 1].date)
            /\ \A j \in 1..Len(ms) :
                   \E i \in 1..Len(data) :
                       /\ data[i].date = ms[j].date
                       /\ data[i].close = ms[j].price
                       /\ \A l \in 1..Len(data) :
                              YearMonth(data[l].date) = YearMonth(ms[j].date)
                                  => data[l].date <= data[i].date
            /\ \A j \in 1..Len(ms) :
                   IF j <= 9
                   THEN ms[j].sma10 = Null /\ ms[j].signal = NoSignal
                   ELSE /\ ms[j].sma10 # Null
                        /\ RMul(ms[j].sma10, Num(10)) = Num(SumOfTen(ms, j))
                        /\ ms[j].signal =
                               (IF 10 * ms[j].price > SumOfTen(ms, j)
                                THEN "BUY" ELSE "SELL")

\* eleven or more months whose tenth closes exactly at the average of the
\* first ten, and which holds a month closing away from its earlier days
C14_Witness ==
    /\ call.fn = "calculateMonthlySignals"
    /\ Len(ret.monthlySignals) >= 11
    /\ ret.monthlySignals[10].sma10 = Num(ret.monthlySignals[10].price)
    /\ ret.monthlySignals[10].signal = "SELL"
    /\ ret.monthlySignals[11].signal = "BUY"
    /\ \E i \in 1..Len(call.data) :
          /\ YearMonth(call.data[i].date) = YearMonth(ret.monthlySignals[11].date)
          /\ call.data[i].close # ret.monthlySignals[11].price

(***************************************************************************)
(* Claims about calculateReturnsTable (SpecTable)                          *)
(***************************************************************************)
\* a return and the detail that explains it agree
DetailExplains(returnValue, detail) ==
    IF returnValue = Null
    THEN /\ detail.returnValue = Null
         /\ detail.startPrice = Null
         /\ detail.endPrice = Null
         /\ detail.startDate = NullDate
         /\ detail.endDate = NullDate
    ELSE /\ detail.returnValue = returnValue
         /\ detail.startPrice # Null
         /\ detail.endPrice # Null
         /\ returnValue = RMul(RSub(RDiv(detail.endPrice, detail.startPrice), One),
                               Hundred)
         /\ detail.startDate # NullDate
         /\ detail.endDate # NullDate
         /\ detail.startDate < detail.endDate

\* C17: in every YearlyData record of calculateReturnsTable each monthly
\* return and the annual return agree with their detail: a return that is not
\* null is the detail's returnValue and is (endPrice / startPrice - 1) * 100
\* of the detail's prices, whose prices and dates are not null, with
\* startDate before endDate; a null return has a detail whose fields are all
\* null.
C17_ReturnsAgreeWithDetails ==
    call.fn = "calculateReturnsTable" =>
        \A k \in 1..Len(ret.years) :
            LET row == ret.years[k]
            IN  /\ \A m \in 1..12 :
                       DetailExplains(row.monthlyReturns[m], row.monthlyDetails[m])
                /\ DetailExplains(row.annualReturn, row.annualDetail)

\* a host west of UTC, a year with a monthly return and an annual return that
\* are not zero, and a year with neither an annual return nor a monthly one
C17_Witness ==
    /\ call.fn = "calculateReturnsTable"
    /\ call.west
    /\ \E k \in 1..Len(ret.years) :
          /\ ret.years[k].annualReturn # Null
          /\ ret.years[k].annualReturn # Zero
          /\ \E m \in 1..12 : /\ ret.years[k].monthlyReturns[m] # Null
                               /\ ret.years[k].monthlyReturns[m] # Zero
    /\ \E k \in 1..Len(ret.years) :
          /\ ret.years[k].annualReturn = Null
          /\ \A m \in 1..12 : ret.years[k].monthlyReturns[m] = Null

\* the indices of the points of the series dated in a month of a year
\* (month 1 to 12; month 0 is December of the year before)
PointsOfMonth(year, month) ==
    LET y == IF month = 0 THEN year - 1 ELSE year
        m == IF month = 0 THEN 12 ELSE month
    IN  {i \in 1..Len(call.data) :
            YearOf(call.data[i].date) = y /\ MonthOf(call.data[i].date) = m}

\* the calendar years in which the series has a point
YearsOfData == {YearOf(call.data[i].date) : i \in 1..Len(call.data)}

\* the record of a year in the table; a year without a record has no returns
HasRecord(year) == \E k \in 1..Len(ret.years) : ret.years[k].year = year

RecordOf(year) == ret.years[CHOOSE k \in 1..Len(ret.years) : ret.years[k].year = year]

\* the monthly return the table reports for a month (1 to 12) of a year
ReportedMonthlyReturn(year, month) ==
    IF HasRecord(year) THEN RecordOf(year).monthlyReturns[month] ELSE Null

\* C21: in calculateReturnsTable (on a series of 2 or more points) the
\* monthly return of month M of year Y is present exactly when the series has
\* points dated in (Y, M) and points dated in the calendar month before it
\* (December of Y - 1 for January), and then it is (last close of (Y, M) /
\* last close of the month before - 1) * 100; a month after a month without
\* data has no return.
C21_MonthlyReturnOfAdjacentMonths ==
    (call.fn = "calculateReturnsTable" /\ Len(call.data) >= 2) =>
        \A year \in YearsOfData : \A month \in 1..12 :
            LET current == PointsOfMonth(year, month)
                before == PointsOfMonth(year, month - 1)
                reported == ReportedMonthlyReturn(year, month)
            IN  IF current # {} /\ before # {}
                THEN RMul(RSub(Rat(call.data[LastOf(current)].close,
                                   call.data[LastOf(before)].close), One),
                          Hundred) = reported
                ELSE reported = Null

\* a host at or east of UTC: a return for December after November, and none
\* for February after a January without data
C21_Witness ==
    /\ call.fn = "calculateReturnsTable"
    /\ ~call.west
    /\ Len(call.data) = 3
    /\ call.data[1].date = 20221130
    /\ call.data[2].date = 20221230
    /\ call.data[3].date = 20230228
    /\ ReportedMonthlyReturn(2022, 12) # Null
    /\ ReportedMonthlyReturn(2022, 12) # Zero
    /\ ReportedMonthlyReturn(2023, 1) = Null
    /\ ReportedMonthlyReturn(2023, 2) = Null

\* the indices of the points of the series dated in a year
PointsOfYear(year) ==
    {i \in 1..Len(call.data) : YearOf(call.data[i].date) = year}

FirstOf(S) == CHOOSE i \in S : \A j \in S : i <= j

\* (endPrice / startPrice - 1) * 100 between two points of the series
ReturnBetween(i, j) ==
    RMul(RSub(Rat(call.data[j].close, call.data[i].close), One), Hundred)

\* two values that are both null or the same number
SameValue(x, y) == IF x = Null THEN y = Null ELSE x = y

\* the annual return the statement gives a year in which the series has data
StatedAnnualReturn(year) ==
    LET december == PointsOfMonth(year, 0)
        inYear == PointsOfYear(year)
    IN  IF december # {} THEN ReturnBetween(LastOf(december), LastOf(inYear))
        ELSE IF Cardinality(inYear) >= 2
        THEN ReturnBetween(FirstOf(inYear), LastOf(inYear))
        ELSE Null

\* C22: in calculateReturnsTable (on a series of 2 or more points) the annual
\* return of year Y is (last close in Y / last close of December Y - 1 - 1)
\* * 100 when the series has a point in December of Y - 1, otherwise (last
\* close in Y / first close in Y - 1) * 100 when Y has 2 or more points,
\* otherwise absent; the table has exactly one record per calendar year in
\* which the series has a point, in strictly ascending order of the years.
C22_AnnualReturnAndYears ==
    (call.fn = "calculateReturnsTable" /\ Len(call.data) >= 2) =>
        /\ \A year \in YearsOfData :
               /\ HasRecord(year)
               /\ SameValue(StatedAnnualReturn(year), RecordOf(year).annualReturn)
        /\ \A k \in 1..Len(ret.years) : ret.years[k].year \in YearsOfData
        /\ \A k \in 1..(Len(ret.years) - 1) : ret.years[k].year < ret.years[k + 1].year

\* a host at or east of UTC and three years: the first with one point and no
\* annual return, the second measured from December of the first, the third
\* from December of the second
C22_Witness ==
    /\ call.fn = "calculateReturnsTable"
    /\ ~call.west
    /\ Len(ret.years) = 3
    /\ ret.years[1].annualReturn = Null
    /\ ret.years[2].annualReturn # Null
    /\ ret.years[2].annualReturn # Zero
    /\ ret.years[3].annualReturn # Null
    /\ PointsOfMonth(2023, 0) # {}
    /\ PointsOfMonth(2024, 0) # {}

\* the indices of the points whose close is strictly greater than every
\* earlier close of the series; the first point is not one of them
NewHighs ==
    {i \in 2..Len(call.data) :
        \A j \in 1..(i - 1) : call.data[j].close < call.data[i].close}

\* the sum of athCount over the first k records of the table
RECURSIVE AthCountSum(_)
AthCountSum(k) == IF k = 0 THEN 0 ELSE AthCountSum(k - 1) + ret.years[k].athCount

\* C23: in calculateReturnsTable (on a series of 2 or more points) athCount
\* of year Y is the number of points dated in Y whose close is strictly
\* greater than every earlier close of the whole series, the first point of
\* the series never being counted; the sum of athCount over all years is the
\* number of strict new running maxima after the first point.
C23_AthCountPerYear ==
    (call.fn = "calculateReturnsTable" /\ Len(call.data) >= 2) =>
        /\ \A year \in YearsOfData :
               /\ HasRecord(year)
               /\ RecordOf(year).athCount = Cardinality(NewHighs \cap PointsOfYear(year))
        /\ AthCountSum(Len(ret.years)) = Cardinality(NewHighs)

\* a host at or east of UTC: a first point, a new high in the next year and a
\* later point at the same close, which is not a new high
C23_Witness ==
    /\ call.fn = "calculateReturnsTable"
    /\ ~call.west
    /\ Len(call.data) = 3
    /\ NewHighs = {2}
    /\ call.data[3].close = call.data[2].close
    /\ Len(ret.years) = 2
    /\ ret.years[1].athCount = 0
    /\ ret.years[2].athCount = 1

\* C30: for every year record of calculateReturnsTable with a non-null
\* maxDrawdown, that maximum drawdown within the year (the peak starts anew
\* at the first point of the year) is >= 0 and does not exceed the
\* maxDrawdown that calculateDrawdownSeries reports for the whole series.
C30_YearDrawdownWithinWhole ==
    (call.fn = "calculateReturnsTable") =>
        \A k \in 1..Len(ret.years) :
            ret.years[k].maxDrawdown # Null =>
                /\ RLe(Zero, ret.years[k].maxDrawdown)
                /\ RLe(ret.years[k].maxDrawdown,
                       calculateDrawdownSeries(call.data).maxDrawdown)

\* a year that holds the low reached from the peak of the year before: its
\* own maximum is 0, below the maximum of the whole series
C30_Witness ==
    /\ call.fn = "calculateReturnsTable"
    /\ \E k \in 1..Len(ret.years) :
          /\ ret.years[k].maxDrawdown # Null
          /\ ret.years[k].maxDrawdown = Zero
          /\ RGt(calculateDrawdownSeries(call.data).maxDrawdown, Zero)

(***************************************************************************)
(* Claims about the signal statistics (SpecSection)                        *)
(***************************************************************************)
\* the transitions of the rendered analysis
SignalDatesOfSection ==
    IF ret.analysis = Null THEN <<>> ELSE ret.analysis.signalDates

\* the close of the selected series on the day of a transition
CloseAtTransition(n) ==
    LET data == DailySeries(call.shape)
        date == SignalDatesOfSection[n].date
    IN  data[CHOOSE i \in 1..Len(data) : data[i].date = date].close

\* the latest SELL transition before transition n
SellBefore(n) ==
    CHOOSE j \in 1..(n - 1) :
        /\ SignalDatesOfSection[j].signal = "SELL"
        /\ \A k \in (j + 1)..(n - 1) : SignalDatesOfSection[k].signal # "SELL"

\* the BUY transitions that follow a SELL transition no BUY has followed yet
RoundTrips ==
    {n \in 1..Len(SignalDatesOfSection) :
        /\ SignalDatesOfSection[n].signal = "BUY"
        /\ \E j \in 1..(n - 1) :
              /\ SignalDatesOfSection[j].signal = "SELL"
              /\ \A k \in (j + 1)..(n - 1) : SignalDatesOfSection[k].signal # "BUY"}

\* C18: over signalDates, every BUY transition that follows a SELL transition
\* not yet paired is one round trip; it is successful exactly when the price
\* at the BUY transition is strictly lower than the price at that SELL
\* transition; successfulRoundTrips <= totalRoundTrips; successRate is
\* successful / total as a percentage when there is a round trip and null
\* when there is none.
C18_RoundTripAccounting ==
    call.fn = "TrendFollowingSection" =>
        LET successful == {n \in RoundTrips :
                              CloseAtTransition(n) < CloseAtTransition(SellBefore(n))}
            stats == ret.signalStats
        IN  /\ stats.totalRoundTrips = Cardinality(RoundTrips)
            /\ stats.successfulRoundTrips = Cardinality(successful)
            /\ stats.successfulRoundTrips <= stats.totalRoundTrips
            /\ IF stats.totalRoundTrips > 0
               THEN stats.successRate =
                        RMul(Rat(stats.successfulRoundTrips, stats.totalRoundTrips),
                             Hundred)
               ELSE stats.successRate = Null

\* a SELL transition followed by a BUY transition at a lower price
C18_Witness ==
    /\ call.fn = "TrendFollowingSection"
    /\ ret.signalStats.totalRoundTrips = 1
    /\ ret.signalStats.successfulRoundTrips = 1
    /\ ret.signalStats.successRate = Hundred

(***************************************************************************)
(* Claims about CAGR, volatility and Sharpe ratio (SpecStats)              *)
(***************************************************************************)
\* the three conventions on a result, given the number of points and the
\* first and last date of the input
ZeroByConvention(result, points, firstDate, lastDate) ==
    /\ ~IsError(result)
    /\ (points < 2 \/ RLe(YearsBetween(firstDate, lastDate), Zero))
           => result.cagr = Exact(Zero)
    /\ points - 1 < 2 => result.annualizedStd = Exact(Zero)
    /\ result.annualizedStd = Exact(Zero) => result.sharpeRatio = Exact(Zero)

\* C19: calculateStatistics (on the series it accepts) and
\* calculateStrategyStatistics answer degenerate inputs with 0 and never with
\* an error: the CAGR is 0 when no time elapses between the first and the
\* last date, the annualized volatility is 0 when there are fewer than 2
\* daily returns, and the Sharpe ratio is 0 whenever the volatility is 0.
C19_DegenerateInputsGiveZero ==
    /\ (call.fn = "calculateStatistics" /\ Len(call.data) >= 2) =>
           ZeroByConvention(ret, Len(call.data), call.data[1].date,
                            call.data[Len(call.data)].date)
    /\ (call.fn = "calculateStrategyStatistics" /\ Len(call.equityCurve) >= 1) =>
           ZeroByConvention(ret, Len(call.equityCurve), call.dates[1],
                            call.dates[Len(call.dates)])
    /\ (call.fn = "calculateStrategyStatistics" /\ Len(call.equityCurve) = 0) =>
           ZeroByConvention(ret, 0, EmptyString, EmptyString)

\* an equity curve of three values on one date, its volatility not 0: the
\* CAGR is 0 for want of elapsed time
C19_Witness ==
    /\ call.fn = "calculateStrategyStatistics"
    /\ Len(call.equityCurve) = 3
    /\ call.dates[1] = call.dates[3]
    /\ ret.annualizedStd # Exact(Zero)
    /\ ret.cagr = Exact(Zero)

(***************************************************************************)
(* Claims about the recomputation of the dashboard (SpecHome)              *)
(***************************************************************************)
\* a range is selected and no point of any loaded series lies in it
SelectionMatchesNothing ==
    /\ call.fn = "Home"
    /\ Len(call.rawTickersData) > 0
    /\ call.dateRange.start # EmptyString
    /\ call.dateRange.end # EmptyString
    /\ \A i \in 1..Len(call.rawTickersData) :
          \A j \in 1..Len(call.rawTickersData[i].data) :
              ~ (/\ call.rawTickersData[i].data[j].date >= call.dateRange.start
                 /\ call.rawTickersData[i].data[j].date <= call.dateRange.end)

\* the range is the one derived by getDateRange when the series were loaded
IsInitialRange ==
    /\ call.dateRange.start = getDateRange(call.rawTickersData).minDate
    /\ call.dateRange.end = getDateRange(call.rawTickersData).maxDate

\* C26: when a date-range selection matches no point of the loaded series
\* (the initial range derived by getDateRange for series with disjoint
\* histories included), filterDataByDateRange returns empty series and the
\* recomputation over them - statistics, normalizeDataForChart and the
\* returns table - completes with empty results, without an error.
C26_EmptySelectionIsEmptyResult ==
    SelectionMatchesNothing =>
        /\ \A i \in 1..Len(ret.filteredTickersData) :
              ret.filteredTickersData[i].data = <<>>
        /\ ret.statistics = <<>>
        /\ ~IsError(ret.chartData)
        /\ ret.chartData.rows = <<>>
        /\ ret.returnsTableData = <<>>

\* two series with disjoint histories under the initial range: the filter
\* leaves two empty series, no statistics and no returns table
C26_Witness ==
    /\ SelectionMatchesNothing
    /\ IsInitialRange
    /\ Len(call.rawTickersData) = 2
    /\ \A i \in 1..2 : ret.filteredTickersData[i].data = <<>>
    /\ ret.statistics = <<>>
    /\ ret.returnsTableData = <<>>

\* the filtered series of the focused ticker, which the returns table shows
FocusedData ==
    LET n == Len(ret.filteredTickersData)
        idx == IF call.focusedTickerIndex < n - 1 THEN call.focusedTickerIndex ELSE n - 1
    IN  ret.filteredTickersData[idx + 1].data

\* the summary of the focused ticker (there is one when it keeps 2 points)
FocusedStatistics ==
    LET n == Len(ret.filteredTickersData)
        idx == IF call.focusedTickerIndex < n - 1 THEN call.focusedTickerIndex ELSE n - 1
    IN  ret.statistics[CHOOSE k \in 1..Len(ret.statistics) :
            ret.statistics[k].ticker = ret.filteredTickersData[idx + 1].ticker]

\* both engines have run on the series of the focused ticker
FocusedHasBoth ==
    /\ call.fn = "Home"
    /\ Len(ret.filteredTickersData) > 0
    /\ Len(FocusedData) >= 2

\* C27: for every series on which calculateStatistics yields a non-null
\* ytdReturn, that value equals the annualReturn that calculateReturnsTable
\* reports on the same series for the calendar year of the series' last date.
C27_YtdIsAnnualReturnOfLastYear ==
    (FocusedHasBoth /\ FocusedStatistics.ytdReturn # Null) =>
        \E k \in 1..Len(ret.returnsTableData) :
            /\ ret.returnsTableData[k].year = YearOf(FocusedData[Len(FocusedData)].date)
            /\ FocusedStatistics.ytdReturn = ret.returnsTableData[k].annualReturn

\* a series with a December close and a different January close: a YTD
\* return other than 0, shown also as the annual return of the last year
C27_Witness ==
    /\ FocusedHasBoth
    /\ FocusedStatistics.ytdReturn # Null
    /\ FocusedStatistics.ytdReturn # Zero
    /\ \E k \in 1..Len(ret.returnsTableData) :
          /\ ret.returnsTableData[k].year = YearOf(FocusedData[Len(FocusedData)].date)
          /\ FocusedStatistics.ytdReturn = ret.returnsTableData[k].annualReturn

====
